---- MODULE Spec2Model ----
(***************************************************************************)
(* The epoch loops of the three optimizers of uq-vae:                      *)
(*   "aware"  optimize()  of optimize_vae_model_aware.py                   *)
(*   "linear" optimize()  of                                               *)
(*            optimize_vae_full_linear_model_augmented_autodiff.py         *)
(*   "dist"   optimize_distributed() of                                    *)
(*            optimize_distributed_vaeiaf_model_aware.py                   *)
(* One run of one optimizer is one behaviour.  Tensors are abstracted: a   *)
(* gradient tensor by its L2 norm (a natural number), the network weights  *)
(* by the number of updates applied to them, a Keras Mean accumulator by   *)
(* the number of values recorded into it since its last reset.             *)
(***************************************************************************)
EXTENDS Integers, Sequences, FiniteSets, TLC

(* ------------------------------ bounds -------------------------------- *)
MaxEpochs == 3
MaxBatches == 2
LongEpochs == 102
DistLongEpochs == 7

(* ------------------------- program constants -------------------------- *)
\* metrics.relative_gradient_norm < 1e-6: the tolerance is 1 / TolInv
TolInv == 1000000
\* if epoch %100 == 0
SinglePeriod == 100
\* if epoch % 5 == 0
DistPeriod == 5

Single == {"aware", "linear"}
Optimizers == Single \cup {"dist"}

\* nn.trainable_variables: the encoder's and the decoder's
TrainableVariables == <<"encoder", "decoder">>
\* L2 norms a gradient tensor may have (the tolerance lies between 1/TolInv
\* and 1/(TolInv+1), so both sides of the test are met)
GradNorms == {0, 1, TolInv}
GradientChoices == [1..Len(TrainableVariables) -> GradNorms]
\* the cross-replica-reduced loss of one training batch
BatchLosses == {1, 2}

(* --------------------- the Metrics accumulators ----------------------- *)
TrainNamesAware == {"mean_loss_train", "mean_loss_train_posterior",
                    "mean_loss_train_vae", "mean_loss_train_encoder"}
ValNamesAware == {"mean_loss_val", "mean_loss_val_posterior",
                  "mean_loss_val_vae", "mean_loss_val_encoder"}
TestNamesAware == {"mean_loss_test", "mean_loss_test_vae",
                   "mean_loss_test_encoder", "mean_loss_test_posterior",
                   "mean_relative_error_input_vae",
                   "mean_relative_error_latent_posterior",
                   "mean_relative_error_input_decoder"}
TrainNamesLinear == {"mean_loss_train", "mean_loss_train_vae",
                     "mean_loss_train_encoder", "mean_loss_train_posterior"}
ValNamesLinear == {"mean_loss_val", "mean_loss_val_encoder",
                   "mean_loss_val_posterior"}
TestNamesLinear == {"mean_loss_test", "mean_loss_test_encoder",
                    "mean_loss_test_posterior",
                    "mean_relative_error_latent_posterior"}
\* the distributed train_step records the four sub-terms only
TrainNamesDist == {"mean_loss_train_vae", "mean_loss_train_encoder",
                   "mean_loss_train_prior", "mean_loss_train_post_draw"}

\* every accumulator the three optimizers name on their Metrics object
MetricNames ==
  <<"mean_loss_train", "mean_loss_train_vae", "mean_loss_train_encoder",
    "mean_loss_train_posterior", "mean_loss_train_prior",
    "mean_loss_train_post_draw",
    "mean_loss_val", "mean_loss_val_vae", "mean_loss_val_encoder",
    "mean_loss_val_posterior", "mean_loss_val_prior",
    "mean_loss_val_post_draw",
    "mean_loss_test", "mean_loss_test_vae", "mean_loss_test_encoder",
    "mean_loss_test_posterior", "mean_loss_test_prior",
    "mean_loss_test_post_draw",
    "mean_relative_error_input_vae", "mean_relative_error_latent_posterior",
    "mean_relative_error_latent_post_draw",
    "mean_relative_error_input_decoder">>
AllNames == {MetricNames[i] : i \in 1..Len(MetricNames)}

VARIABLES
  opt,            \* which optimizer runs
  num_epochs,     \* hyperp.num_epochs
  nTrain,         \* batches the training sequence yields per epoch
  nVal,           \* batches of the validation sequence
  nTest,          \* batches of the test sequence
  matrices,       \* forward_matrix, prior_cov_inv, noise_regularization_matrix,
                  \* measurement_matrix (full linear optimizer)
  operators,      \* the operators the full linear optimizer builds from them
  pc,             \* position in the optimizer
  epoch,          \* the loop variable (-1 before the first iteration)
  batch,          \* batches of the current phase processed in this epoch
  weights,        \* number of optimizer.apply_gradients calls on the weights
  gradients,      \* what the last train_step returned (<<>>: never assigned)
  sum_gradient_norms,
  initial_sum_gradient_norms,   \* -1: never assigned
  relative_gradient_norm,       \* <<numerator, denominator>>
  batch_counter,  \* distributed loop only
  total_loss_train,
  mean_loss_train,              \* <<total, count>> once assigned
  acc,            \* accumulator name -> records since the last reset
  storage,        \* the storage arrays: one snapshot per epoch
  disk,           \* the four artefacts under filepaths
  outcome,        \* "running", "Converged", "MaxEpochsReached", an error
  \* ---- history variables, read by the properties only ----
  h_trained,      \* training batches processed
  h_since,        \* phase -> batches processed since the last reset
  h_last,         \* gradient norms of the latest training batch
  h_sum0,         \* sum of h_last at the end of epoch 0's training (-1 before)
  h_firstBelow,   \* first epoch whose ratio was below tolerance (-1: none)
  h_losses,       \* reduced losses of this epoch's training batches
  h_events,       \* what has been executed in the current epoch, in order
  h_periodic,     \* epoch of the latest periodic checkpoint (-1: none)
  h_nPeriodic,    \* number of periodic checkpoints
  h_final,        \* the final checkpoint has been written
  \* ---- one distributed training step (dist_train_step) ----
  num_replicas,   \* dist_strategy.num_replicas_in_sync
  batch_size,     \* hyperp.batch_size
  example_losses, \* per-example loss of each example of the global batch
  shard,          \* example -> replica that received it
  rpc,            \* replica -> position in train_step
  replica_loss,   \* replica -> numerator of scaled_replica_batch_loss_train
  mirrored,       \* updates applied to the mirrored trainable variables
  step_loss,      \* what dist_train_step returned: <<sum, batch_size>>
  \* ---- one call of get_hyperparameter_combinations ----
  hyperp_dict,    \* the mapping, in key order: <<[key, vals], ...>>
  scenarios,      \* the list returned
  hp_pc,          \* "called", "returned" or the error raised
  \* ---- one call of SolveFEMPoissonHeatLinearAssembled.solve_pde ----
  solver,         \* self: obs_type, obs_indices and the three operators
  parameters,     \* the batch of parameter rows
  n_row,          \* the loop variable n
  state,          \* the state built so far, a list of rows
  state_obs,      \* tf.gather(state, obs_indices, axis=1)
  returned,       \* the tensor returned: [shape, rows]
  pde_pc,         \* position in solve_pde
  \* ---- the MPI scheduler: rank 0 and the worker ranks ----
  nprocs,         \* comm.Get_size()
  hostnames,      \* worker rank -> socket.gethostname()
  num_scenarios,  \* len(scenarios_list)
  cpc,            \* position of rank 0
  processes,      \* the proc_info received, in order of receipt
  proc_index,     \* position of "for proc_info in processes"
  nodes,          \* hostname -> ranks found on that node
  active_procs,
  proc_to_cpu_mapping,
  sched,          \* locals of schedule_runs
  wpc,            \* worker rank -> position of that worker
  to_coord,       \* worker rank -> messages sent to rank 0, not yet received
  to_worker,      \* worker rank -> messages sent to it, not yet received
  alive,          \* worker rank -> training subprocesses alive
  h_received,     \* worker rank -> non-EXIT messages received
  h_started,      \* worker rank -> subprocesses started
  h_finished,     \* worker rank -> RUN_FINISHED messages sent
  returncode,     \* worker rank -> exit status of its last subprocess
  h_exit          \* ranks sent EXIT as redundant

vars == <<opt, num_epochs, nTrain, nVal, nTest, matrices, operators, pc, epoch, batch, weights,
          gradients, sum_gradient_norms, initial_sum_gradient_norms,
          relative_gradient_norm, batch_counter, total_loss_train,
          mean_loss_train, acc, storage, disk, outcome,
          h_trained, h_since, h_last, h_sum0, h_firstBelow,
          h_losses, h_events, h_periodic, h_nPeriodic, h_final,
          num_replicas, batch_size, example_losses, shard, rpc, replica_loss,
          mirrored, step_loss, hyperp_dict, scenarios, hp_pc,
          solver, parameters, n_row, state, state_obs, returned, pde_pc,
          nprocs, hostnames, num_scenarios, cpc, processes, proc_index, nodes,
          active_procs, proc_to_cpu_mapping, sched, wpc, to_coord, to_worker,
          alive, h_received, h_started, h_finished, returncode, h_exit>>

trainvars == <<opt, num_epochs, nTrain, nVal, nTest, matrices, operators,
               pc, epoch, batch, weights,
               gradients, sum_gradient_norms, initial_sum_gradient_norms,
               relative_gradient_norm, batch_counter, total_loss_train,
               mean_loss_train, acc, storage, disk, outcome,
               h_trained, h_since, h_last, h_sum0, h_firstBelow,
               h_losses, h_events, h_periodic, h_nPeriodic, h_final>>
stepvars == <<num_replicas, batch_size, example_losses, shard, rpc,
              replica_loss, mirrored, step_loss>>
hypervars == <<hyperp_dict, scenarios, hp_pc>>
pdevars == <<solver, parameters, n_row, state, state_obs, returned, pde_pc>>
mpivars == <<nprocs, hostnames, num_scenarios, cpc, processes, proc_index,
             nodes, active_procs, proc_to_cpu_mapping, sched, wpc, to_coord,
             to_worker, alive, h_received, h_started, h_finished, returncode,
             h_exit>>
others == <<stepvars, hypervars, pdevars, mpivars>>
notstep == <<trainvars, hypervars, pdevars, mpivars>>
nothyper == <<trainvars, stepvars, pdevars, mpivars>>
notpde == <<trainvars, stepvars, hypervars, mpivars>>
notmpi == <<trainvars, stepvars, hypervars, pdevars>>

inputs == <<opt, num_epochs, nTrain, nVal, nTest, matrices>>
gradvars == <<gradients, sum_gradient_norms, initial_sum_gradient_norms,
              relative_gradient_norm>>
distvars == <<batch_counter, total_loss_train, mean_loss_train>>
ckptvars == <<disk, h_periodic, h_nPeriodic, h_final>>
h_grad == <<h_last, h_sum0, h_firstBelow>>

(* ------------------------------ helpers ------------------------------- *)
RECURSIVE SumSeq(_)
SumSeq(s) == IF s = <<>> THEN 0 ELSE s[1] + SumSeq(Tail(s))

\* l2_norm = lambda t: tf.sqrt(tf.reduce_sum(tf.pow(t, 2))); a gradient is
\* represented by its norm
l2_norm(t) == t

\* metrics.mean_loss_*(value): one record into each named accumulator
Record(a, names) == [n \in DOMAIN a |-> IF n \in names THEN a[n] + 1 ELSE a[n]]

\* Metrics.reset_metrics(): every accumulator is cleared
ResetAll(a) == [n \in DOMAIN a |-> 0]

\* what a snapshot keeps of the accumulators: how many recorded values it
\* summarises
Recorded(a) == SumSeq([i \in 1..Len(MetricNames) |-> a[MetricNames[i]]])

\* the snapshot taken of accumulators that were reset first
AppendSnapshotAfterReset(st, a) == Append(st, Recorded(ResetAll(a)))

\* Metrics.update_storage_arrays(): the accumulators' current values are
\* appended to the storage arrays
AppendSnapshot(st, a) == Append(st, Recorded(a))

ZeroSince == [p \in {"train", "val", "test"} |-> 0]

(* ------------------------------- inputs ------------------------------- *)
\* every small run, and one long run per optimizer that reaches the
\* periodic checkpoints after the first
SmallRuns == [opt : Optimizers, num_epochs : 0..MaxEpochs,
              nTrain : 0..MaxBatches, nVal : 0..MaxBatches,
              nTest : 0..MaxBatches]
LongRuns == [opt : Single, num_epochs : {LongEpochs},
             nTrain : {1}, nVal : {0}, nTest : {0}]
            \cup [opt : {"dist"}, num_epochs : {DistLongEpochs},
                  nTrain : {1}, nVal : {0}, nTest : {0}]

\* the matrices handed to optimize of the full linear optimizer, each
\* represented by one entry; of measurement_matrix the shape is kept as well
MatrixChoices ==
  [forward_matrix : {1, 2}, prior_cov_inv : {1, 2},
   noise_regularization_matrix : {1},
   measurement_matrix : {[shape |-> <<1, 1>>, entry |-> 2],
                         [shape |-> <<2, 1>>, entry |-> 2]}]
DefaultMatrices ==
  [forward_matrix |-> 1, prior_cov_inv |-> 1,
   noise_regularization_matrix |-> 1,
   measurement_matrix |-> [shape |-> <<1, 1>>, entry |-> 2]]

\* tf.linalg.LinearOperatorKronecker([tf.eye(latent_dimension), matrix])
\* with latent_dimension = 1
Kronecker(matrix) == 1 * matrix

\* lines 87-95: the two ways likelihood_matrix is computed
LikelihoodMatrix(m) ==
  IF m.measurement_matrix.shape = <<1, 1>>
    THEN m.forward_matrix * (m.noise_regularization_matrix * m.forward_matrix)
    ELSE (m.measurement_matrix.entry * m.forward_matrix)
           * (m.noise_regularization_matrix
                * (m.measurement_matrix.entry * m.forward_matrix))

\* lines 80-99: the three objects optimize builds before the loop
BuildOperators(m) ==
  [identity_otimes_prior_cov_inv |-> <<Kronecker(m.prior_cov_inv)>>,
   likelihood_matrix |-> <<LikelihoodMatrix(m)>>,
   identity_otimes_likelihood_matrix |->
     <<Kronecker(LikelihoodMatrix(m))>>]
\* the names are not bound: before line 81, and in the other optimizers
NoOperators ==
  [identity_otimes_prior_cov_inv |-> <<>>, likelihood_matrix |-> <<>>,
   identity_otimes_likelihood_matrix |-> <<>>]

NoFile == [content |-> <<>>, writes |-> 0]
EmptyDisk == [weights |-> [content |-> 0, writes |-> 0],
              metrics |-> NoFile, hyperp |-> NoFile, options |-> NoFile]

\* no distributed step is in progress
StepIdle ==
  /\ num_replicas = 1
  /\ batch_size = 1
  /\ example_losses = <<>>
  /\ shard = <<>>
  /\ rpc = <<"idle">>
  /\ replica_loss = <<0>>
  /\ mirrored = 0
  /\ step_loss = <<>>

\* get_hyperparameter_combinations is not being called
HyperIdle ==
  /\ hyperp_dict = <<>>
  /\ scenarios = <<>>
  /\ hp_pc = "idle"

\* solve_pde is not being called
NoTensor == [shape |-> <<>>, rows |-> <<>>]
PdeIdle ==
  /\ solver = <<>>
  /\ parameters = <<>>
  /\ n_row = 0
  /\ state = <<>>
  /\ state_obs = NoTensor
  /\ returned = NoTensor
  /\ pde_pc = "idle"

\* the objects of rank 0 as lines 73, 84-86 create them
NoSchedule == [next |-> 1, busy |-> {}, done |-> 0]
CoordinatorStart ==
  /\ processes = <<>>
  /\ proc_index = 0
  /\ nodes = <<>>
  /\ active_procs = <<>>
  /\ proc_to_cpu_mapping = <<>>
  /\ sched = NoSchedule
  /\ h_exit = {}

\* no scheduler is running
MpiIdle ==
  /\ nprocs = 1
  /\ hostnames = <<>>
  /\ num_scenarios = 0
  /\ cpc = "idle"
  /\ CoordinatorStart
  /\ wpc = <<>>
  /\ to_coord = <<>>
  /\ to_worker = <<>>
  /\ alive = <<>>
  /\ h_received = <<>>
  /\ h_started = <<>>
  /\ h_finished = <<>>
  /\ returncode = <<>>

OthersIdle == StepIdle /\ HyperIdle /\ PdeIdle /\ MpiIdle

\* the locals of optimize(...) for the run r before the epoch loop
Locals(r) ==
  /\ opt = r.opt
  /\ num_epochs = r.num_epochs
  /\ nTrain = r.nTrain
  /\ nVal = r.nVal
  /\ nTest = r.nTest
  /\ epoch = -1
  /\ batch = 0
  /\ weights = 0
  /\ gradients = <<>>
  /\ sum_gradient_norms = 0
  /\ initial_sum_gradient_norms = -1
  /\ relative_gradient_norm = <<0, 0>>
  /\ batch_counter = 0
  /\ total_loss_train = 0
  /\ mean_loss_train = <<0, 0>>
  /\ acc = [n \in AllNames |-> 0]
  /\ storage = <<>>
  /\ disk = EmptyDisk
  /\ outcome = "running"
  /\ h_trained = 0
  /\ h_since = ZeroSince
  /\ h_last = <<>>
  /\ h_sum0 = -1
  /\ h_firstBelow = -1
  /\ h_losses = <<>>
  /\ h_events = <<>>
  /\ h_periodic = -1
  /\ h_nPeriodic = 0
  /\ h_final = FALSE

\* the state in which the epoch loop of the run r is entered
Start(r) ==
  /\ Locals(r)
  /\ pc = "loop_head"
  /\ matrices = DefaultMatrices
  /\ operators = IF r.opt = "linear" THEN BuildOperators(DefaultMatrices)
                                     ELSE NoOperators

Init == (\E r \in SmallRuns \cup LongRuns : Start(r)) /\ OthersIdle

\* no optimizer is running
NoRun == [opt |-> "aware", num_epochs |-> 0, nTrain |-> 0, nVal |-> 0,
          nTest |-> 0]
TrainingIdle == Start(NoRun)

(* ---------------------- the steps' state changes ---------------------- *)
\* optimizer.apply_gradients(zip(gradients, nn.trainable_variables))
ApplyGradients(w) == w + 1

\* gradients summed over the batches of the run instead of replaced
TrainStepAccumulates(old, g) ==
  IF old = <<>> THEN g ELSE [i \in DOMAIN g |-> old[i] + g[i]]

\* train_step: tape.gradient, apply_gradients, return gradients
TrainStepWeights(w) == ApplyGradients(w)
TrainStepReturn(old, g) == g

\* a validation step that also applies gradients
ValStepApplies(w) == ApplyGradients(w)

\* val_step and test_step: forward pass and losses, no tape, no update
ValStepWeights(w) == w
TestStepWeights(w) == w

\* a step that rebuilds the likelihood operator from its own batch
StepRebuilds(ops) ==
  IF ops = NoOperators THEN ops
  ELSE [ops EXCEPT !.identity_otimes_likelihood_matrix = <<@[1] + 1>>]

\* train_step, val_step and test_step pass identity_otimes_likelihood_matrix
\* and identity_otimes_prior_cov_inv to the loss functionals and assign
\* neither
StepReads(ops) == ops

TrainNames(o) == IF o = "aware" THEN TrainNamesAware ELSE TrainNamesLinear
ValNames(o) == IF o = "aware" THEN ValNamesAware ELSE ValNamesLinear
TestNames(o) == IF o = "aware" THEN TestNamesAware ELSE TestNamesLinear

\* the loop over zip(gradients, nn.trainable_variables): r = <<sum, initial>>
RECURSIVE GradNormLoop(_, _, _, _)
GradNormLoop(i, r, grads, ep) ==
  IF i > Len(grads) \/ i > Len(TrainableVariables) THEN r
  ELSE LET s == r[1] + l2_norm(grads[i])
       IN  GradNormLoop(i + 1, <<s, IF ep = 0 THEN s ELSE r[2]>>, grads, ep)

\* sum_gradient_norms/initial_sum_gradient_norms, kept as the pair; a zero
\* denominator is the NaN or infinity of the float division
Ratio(s, s0) == <<s, s0>>

\* variants of the tolerance test: <= for <, and a test that never fires
LessOrEqualTol(r) == r[2] > 0 /\ r[1] <= r[2] \div TolInv
NeverBelowTol(r) == FALSE

\* a test that takes a ratio without a value (NaN, infinity) as converged
NaNCountsAsBelowTol(r) ==
  r[2] = 0 \/ (r[2] > 0 /\ r[1] < (r[2] + TolInv - 1) \div TolInv)

\* a tolerance of 1, met by a sum that has not grown
AtMostInitial(r) == r[2] > 0 /\ r[1] <= r[2]

\* relative_gradient_norm < 1e-6 on the pair <<n, d>>: n/d < 1/TolInv, that
\* is n < d/TolInv; false for NaN and infinity
LessThanTol(r) == r[2] > 0 /\ r[1] < (r[2] + TolInv - 1) \div TolInv

\* a cadence shifted by one epoch
IsCheckpointEpochShifted(e) == (e + 1) % SinglePeriod = 0

\* if epoch %100 == 0 / if epoch % 5 == 0
IsCheckpointEpoch(e) == e % SinglePeriod = 0
DistIsCheckpointEpoch(e) == e % DistPeriod = 0

\* nn.save_weights, metrics.save_metrics and the two dump_attrdict_as_yaml
\* calls: each overwrites its file
WriteFile(f, c) == [content |-> c, writes |-> f.writes + 1]
SaveCheckpoint(d, w, st) ==
  [weights |-> WriteFile(d.weights, w),
   metrics |-> WriteFile(d.metrics, st),
   hyperp  |-> WriteFile(d.hyperp, <<"hyperp">>),
   options |-> WriteFile(d.options, <<"options">>)]

\* history: the ratio of the epoch that ends, as the claims define it
BelowTolerance(s, s0) ==
  /\ s0 > 0
  /\ \/ s < s0 \div TolInv
     \/ s = s0 \div TolInv /\ s0 % TolInv > 0

EndOfTraining ==
  LET s  == SumSeq(h_last)
      s0 == IF epoch = 0 THEN s ELSE h_sum0
  IN  /\ h_sum0' = s0
      /\ h_firstBelow' = IF h_firstBelow = -1 /\ BelowTolerance(s, s0)
                         THEN epoch ELSE h_firstBelow
      /\ h_last' = h_last

(* --------------------- single-device optimizers ----------------------- *)
\* for epoch in range(hyperp.num_epochs): one more iteration
EpochBegin ==
  /\ pc = "loop_head" /\ opt \in Single
  /\ epoch + 1 < num_epochs
  /\ epoch' = epoch + 1
  /\ pc' = "train"
  /\ batch' = 0
  /\ h_losses' = <<>>
  /\ h_events' = <<>>
  /\ UNCHANGED <<others, inputs, operators, weights, gradvars, distvars, acc, storage, ckptvars,
                 outcome, h_trained, h_since, h_grad>>

\* the range is exhausted
LoopExhausted ==
  /\ pc = "loop_head"
  /\ ~(epoch + 1 < num_epochs)
  /\ pc' = "final"
  /\ outcome' = "MaxEpochsReached"
  /\ UNCHANGED <<others, inputs, operators, epoch, batch, weights, gradvars, distvars, acc,
                 storage, ckptvars, h_trained, h_since, h_grad,
                 h_losses, h_events>>

TrainBatch ==
  /\ pc = "train" /\ opt \in Single
  /\ batch < nTrain
  /\ \E g \in GradientChoices :
       /\ gradients' = TrainStepReturn(gradients, g)
       /\ h_last' = g
  /\ weights' = TrainStepWeights(weights)
  /\ acc' = Record(acc, TrainNames(opt))
  /\ operators' = StepReads(operators)
  /\ batch' = batch + 1
  /\ h_trained' = h_trained + 1
  /\ h_since' = [h_since EXCEPT !["train"] = @ + 1]
  /\ h_events' = Append(h_events, "train")
  /\ UNCHANGED <<others, inputs, pc, epoch, sum_gradient_norms,
                 initial_sum_gradient_norms, relative_gradient_norm, distvars,
                 storage, ckptvars, outcome, h_sum0, h_firstBelow, h_losses>>

TrainDone ==
  /\ pc = "train" /\ opt \in Single
  /\ batch = nTrain
  /\ pc' = "val"
  /\ batch' = 0
  /\ EndOfTraining
  /\ UNCHANGED <<others, inputs, operators, epoch, weights, gradvars, distvars, acc, storage,
                 ckptvars, outcome, h_trained, h_since, h_losses,
                 h_events>>

ValBatch ==
  /\ pc = "val" /\ opt \in Single
  /\ batch < nVal
  /\ weights' = ValStepWeights(weights)
  /\ acc' = Record(acc, ValNames(opt))
  /\ operators' = StepReads(operators)
  /\ batch' = batch + 1
  /\ h_since' = [h_since EXCEPT !["val"] = @ + 1]
  /\ h_events' = Append(h_events, "val")
  /\ UNCHANGED <<others, inputs, pc, epoch, gradvars, distvars, storage, ckptvars,
                 outcome, h_trained, h_grad, h_losses>>

ValDone ==
  /\ pc = "val"
  /\ batch = nVal
  /\ pc' = "test"
  /\ batch' = 0
  /\ UNCHANGED <<others, inputs, operators, epoch, weights, gradvars, distvars, acc, storage,
                 ckptvars, outcome, h_trained, h_since, h_grad,
                 h_losses, h_events>>

TestBatch ==
  /\ pc = "test" /\ opt \in Single
  /\ batch < nTest
  /\ weights' = TestStepWeights(weights)
  /\ acc' = Record(acc, TestNames(opt))
  /\ operators' = StepReads(operators)
  /\ batch' = batch + 1
  /\ h_since' = [h_since EXCEPT !["test"] = @ + 1]
  /\ h_events' = Append(h_events, "test")
  /\ UNCHANGED <<others, inputs, pc, epoch, gradvars, distvars, storage, ckptvars,
                 outcome, h_trained, h_grad, h_losses>>

\* the test loop left after its first batch at the latest
TestDoneEarly ==
  /\ pc = "test" /\ opt \in Single
  /\ batch = nTest \/ batch = 1
  /\ pc' = "gradnorm"
  /\ UNCHANGED <<others, inputs, operators, epoch, batch, weights, gradvars, distvars, acc,
                 storage, ckptvars, outcome, h_trained, h_since, h_grad,
                 h_losses, h_events>>

TestDone ==
  /\ pc = "test" /\ opt \in Single
  /\ batch = nTest
  /\ pc' = "gradnorm"
  /\ UNCHANGED <<others, inputs, operators, epoch, batch, weights, gradvars, distvars, acc,
                 storage, ckptvars, outcome, h_trained, h_since,
                 h_grad, h_losses, h_events>>

\* the gradient-norm block; `gradients` is assigned by the first training
\* batch of the run
GradNorm ==
  /\ pc = "gradnorm"
  /\ gradients # <<>>
  /\ LET r == GradNormLoop(1, <<0, initial_sum_gradient_norms>>, gradients, epoch)
     IN  /\ sum_gradient_norms' = r[1]
         /\ initial_sum_gradient_norms' = r[2]
         /\ relative_gradient_norm' = Ratio(r[1], r[2])
  /\ pc' = "tensorboard"
  /\ h_events' = Append(h_events, "gradnorm")
  /\ UNCHANGED <<others, inputs, operators, epoch, batch, weights, gradients, distvars, acc,
                 storage, ckptvars, outcome, h_trained, h_since,
                 h_grad, h_losses>>

\* a gradient-norm block that is passed over when there are no gradients
GradNormSkipped ==
  /\ pc = "gradnorm"
  /\ gradients = <<>>
  /\ pc' = "tensorboard"
  /\ UNCHANGED <<others, inputs, operators, epoch, batch, weights, gradvars,
                 distvars, acc, storage, ckptvars, outcome, h_trained, h_since,
                 h_grad, h_losses, h_events>>

\* zip(gradients, ...) with `gradients` never assigned
GradNormUnbound ==
  /\ pc = "gradnorm"
  /\ gradients = <<>>
  /\ pc' = "error"
  /\ outcome' = "UnboundLocalError"
  /\ UNCHANGED <<others, inputs, operators, epoch, batch, weights, gradvars, distvars, acc,
                 storage, ckptvars, h_trained, h_since, h_grad,
                 h_losses, h_events>>

\* metrics.update_tensorboard(summary_writer, epoch)
UpdateTensorboard ==
  /\ pc = "tensorboard"
  /\ pc' = "storage"
  /\ h_events' = Append(h_events, "tensorboard")
  /\ UNCHANGED <<others, inputs, operators, epoch, batch, weights, gradvars, distvars, acc,
                 storage, ckptvars, outcome, h_trained, h_since,
                 h_grad, h_losses>>

\* metrics.update_storage_arrays()
UpdateStorageArrays ==
  /\ pc = "storage"
  /\ storage' = AppendSnapshot(storage, acc)
  /\ pc' = "display"
  /\ h_events' = Append(h_events, "storage")
  /\ UNCHANGED <<others, inputs, operators, epoch, batch, weights, gradvars, distvars, acc,
                 ckptvars, outcome, h_trained, h_since, h_grad,
                 h_losses>>

\* the prints of the epoch's metric values
Display ==
  /\ pc = "display"
  /\ pc' = "reset"
  /\ h_events' = Append(h_events, "display")
  /\ UNCHANGED <<others, inputs, operators, epoch, batch, weights, gradvars, distvars, acc,
                 storage, ckptvars, outcome, h_trained, h_since,
                 h_grad, h_losses>>

\* metrics.reset_metrics()
ResetMetrics ==
  /\ pc = "reset"
  /\ acc' = ResetAll(acc)
  /\ h_since' = ZeroSince
  /\ pc' = "checkpoint"
  /\ h_events' = Append(h_events, "reset")
  /\ UNCHANGED <<others, inputs, operators, epoch, batch, weights, gradvars, distvars, storage,
                 ckptvars, outcome, h_trained, h_grad, h_losses>>

CheckpointDecision ==
  /\ pc = "checkpoint" /\ opt \in Single
  /\ IF IsCheckpointEpoch(epoch)
     THEN /\ disk' = SaveCheckpoint(disk, weights, storage)
          /\ h_periodic' = epoch
          /\ h_nPeriodic' = h_nPeriodic + 1
     ELSE UNCHANGED <<disk, h_periodic, h_nPeriodic>>
  /\ pc' = "terminate"
  /\ h_events' = Append(h_events, "checkpoint_decision")
  /\ UNCHANGED <<others, inputs, operators, epoch, batch, weights, gradvars, distvars, acc,
                 storage, h_final, outcome, h_trained, h_since,
                 h_grad, h_losses>>

\* if metrics.relative_gradient_norm < 1e-6: break
TerminationDecision ==
  /\ pc = "terminate"
  /\ IF LessThanTol(relative_gradient_norm)
     THEN pc' = "final" /\ outcome' = "Converged"
     ELSE pc' = "loop_head" /\ outcome' = outcome
  /\ h_events' = Append(h_events, "termination_decision")
  /\ UNCHANGED <<others, inputs, operators, epoch, batch, weights, gradvars, distvars, acc,
                 storage, ckptvars, h_trained, h_since, h_grad,
                 h_losses>>

\* Save Final Model
FinalCheckpoint ==
  /\ pc = "final"
  /\ disk' = SaveCheckpoint(disk, weights, storage)
  /\ h_final' = TRUE
  /\ pc' = "returned"
  /\ UNCHANGED <<others, inputs, operators, epoch, batch, weights, gradvars, distvars, acc,
                 storage, outcome, h_periodic, h_nPeriodic, 
                 h_trained, h_since, h_grad, h_losses, h_events>>

(* ----------------------- distributed optimizer ------------------------ *)
\* a running total that is carried over from the previous epoch
EpochStartTotalKept(t) == t

\* batch_counter = 0 and total_loss_train = 0 at the top of the loop body
EpochStartCounter(c) == 0
EpochStartTotal(t) == 0

\* total_loss_train += batch_loss_train; batch_counter += 1
AddBatchLoss(t, l) == t + l
NextCounter(c) == c + 1

\* metrics.mean_loss_train = total_loss_train/batch_counter, kept as the pair
MeanLossTrain(t, c) == <<t, c>>

DistEpochBegin ==
  /\ pc = "loop_head" /\ opt = "dist"
  /\ epoch + 1 < num_epochs
  /\ epoch' = epoch + 1
  /\ pc' = "train"
  /\ batch' = 0
  /\ batch_counter' = EpochStartCounter(batch_counter)
  /\ total_loss_train' = EpochStartTotal(total_loss_train)
  /\ h_losses' = <<>>
  /\ h_events' = <<>>
  /\ UNCHANGED <<others, inputs, operators, weights, gradvars, mean_loss_train, acc, storage,
                 ckptvars, outcome, h_trained, h_since, h_grad>>

\* dist_train_step: train_step on every replica, then the SUM reduction
DistTrainBatch ==
  /\ pc = "train" /\ opt = "dist"
  /\ batch < nTrain
  /\ \E g \in GradientChoices : h_last' = g
  /\ \E l \in BatchLosses :
       /\ total_loss_train' = AddBatchLoss(total_loss_train, l)
       /\ h_losses' = Append(h_losses, l)
  /\ batch_counter' = NextCounter(batch_counter)
  /\ weights' = TrainStepWeights(weights)
  /\ acc' = Record(acc, TrainNamesDist)
  /\ batch' = batch + 1
  /\ h_trained' = h_trained + 1
  /\ h_since' = [h_since EXCEPT !["train"] = @ + 1]
  /\ h_events' = Append(h_events, "train")
  /\ UNCHANGED <<others, inputs, operators, pc, epoch, gradvars, mean_loss_train, storage,
                 ckptvars, outcome, h_sum0, h_firstBelow>>

DistTrainDone ==
  /\ pc = "train" /\ opt = "dist"
  /\ batch = nTrain
  /\ batch_counter # 0
  /\ mean_loss_train' = MeanLossTrain(total_loss_train, batch_counter)
  /\ pc' = "val"
  /\ batch' = 0
  /\ EndOfTraining
  /\ UNCHANGED <<others, inputs, operators, epoch, weights, gradvars, batch_counter,
                 total_loss_train, acc, storage, ckptvars, outcome, h_trained,
                 h_since, h_losses, h_events>>

\* total_loss_train/batch_counter with both the integer 0
DistTrainDoneZeroDivision ==
  /\ pc = "train" /\ opt = "dist"
  /\ batch = nTrain
  /\ batch_counter = 0
  /\ pc' = "error"
  /\ outcome' = "ZeroDivisionError"
  /\ UNCHANGED <<others, inputs, operators, epoch, batch, weights, gradvars, distvars, acc,
                 storage, ckptvars, h_trained, h_since, h_grad, h_losses,
                 h_events>>

\* val_step reads unscaled_replica_batch_loss_val, which nothing assigns,
\* before it records anything
DistValBatch ==
  /\ pc = "val" /\ opt = "dist"
  /\ batch < nVal
  /\ pc' = "error"
  /\ outcome' = "NameError"
  /\ UNCHANGED <<others, inputs, operators, epoch, batch, weights, gradvars, distvars, acc,
                 storage, ckptvars, h_trained, h_since, h_grad, h_losses,
                 h_events>>

\* test_step reads unscaled_replica_batch_loss_test, which nothing assigns,
\* before it records anything
DistTestBatch ==
  /\ pc = "test" /\ opt = "dist"
  /\ batch < nTest
  /\ pc' = "error"
  /\ outcome' = "NameError"
  /\ UNCHANGED <<others, inputs, operators, epoch, batch, weights, gradvars, distvars, acc,
                 storage, ckptvars, h_trained, h_since, h_grad, h_losses,
                 h_events>>

DistTestDone ==
  /\ pc = "test" /\ opt = "dist"
  /\ batch = nTest
  /\ pc' = "tensorboard"
  /\ UNCHANGED <<others, inputs, operators, epoch, batch, weights, gradvars, distvars, acc,
                 storage, ckptvars, outcome, h_trained, h_since, h_grad,
                 h_losses, h_events>>

\* the loop body ends with the checkpoint: no termination test follows
DistCheckpointDecision ==
  /\ pc = "checkpoint" /\ opt = "dist"
  /\ IF DistIsCheckpointEpoch(epoch)
     THEN /\ disk' = SaveCheckpoint(disk, weights, storage)
          /\ h_periodic' = epoch
          /\ h_nPeriodic' = h_nPeriodic + 1
     ELSE UNCHANGED <<disk, h_periodic, h_nPeriodic>>
  /\ pc' = "loop_head"
  /\ h_events' = Append(h_events, "checkpoint_decision")
  /\ UNCHANGED <<others, inputs, operators, epoch, batch, weights, gradvars, distvars, acc,
                 storage, h_final, outcome, h_trained, h_since, h_grad,
                 h_losses>>

(* --------------------------- specification ---------------------------- *)
Next ==
  \/ EpochBegin \/ LoopExhausted
  \/ TrainBatch \/ TrainDone
  \/ ValBatch \/ ValDone
  \/ TestBatch \/ TestDone
  \/ GradNorm \/ GradNormUnbound
  \/ UpdateTensorboard \/ UpdateStorageArrays \/ Display \/ ResetMetrics
  \/ CheckpointDecision \/ TerminationDecision
  \/ FinalCheckpoint
  \/ DistEpochBegin \/ DistTrainBatch
  \/ DistTrainDone \/ DistTrainDoneZeroDivision
  \/ DistValBatch \/ DistTestBatch \/ DistTestDone
  \/ DistCheckpointDecision

Spec == Init /\ [][Next]_vars

(* ============================== claims ================================ *)
Range(s) == {s[i] : i \in DOMAIN s}
Count(x, s) == Cardinality({i \in DOMAIN s : s[i] = x})
Halted == pc \in {"returned", "error"}

\* the four artefacts are those of one SaveCheckpoint of the current weights
\* and storage arrays, the n-th of the run
DiskHolds(n) ==
  /\ disk.weights = [content |-> weights, writes |-> n]
  /\ disk.metrics = [content |-> storage, writes |-> n]
  /\ disk.hyperp = [content |-> <<"hyperp">>, writes |-> n]
  /\ disk.options = [content |-> <<"options">>, writes |-> n]

\* C1: a single-device run with a non-empty training sequence never fails
\* and never gets stuck; when optimize has returned, either the loop was
\* left by the break with the last epoch's ratio below the tolerance
\* (Converged) or all num_epochs epochs were executed (MaxEpochsReached),
\* and in both cases the final checkpoint was written after the last
\* executed epoch: the files hold the final weights and the history of every
\* executed epoch.
C1_TerminationAndFinalCheckpoint ==
  opt \in Single =>
    /\ nTrain >= 1 => pc # "error"
    /\ ~Halted => ENABLED Next
    /\ pc \in {"final", "returned"} =>
         \/ /\ outcome = "Converged"
            /\ epoch \in 0..(num_epochs - 1)
            /\ BelowTolerance(SumSeq(h_last), h_sum0)
         \/ /\ outcome = "MaxEpochsReached"
            /\ epoch + 1 = num_epochs
    /\ pc = "final" => ~h_final
    /\ pc = "returned" =>
         /\ h_final
         /\ Len(storage) = epoch + 1
         /\ weights = (epoch + 1) * nTrain
         /\ DiskHolds(h_nPeriodic + 1)
    /\ h_final => pc = "returned"

C1_Witness ==
  /\ opt \in Single /\ pc = "returned"
  /\ outcome = "Converged" /\ epoch = 1 /\ num_epochs = 3
  /\ nTrain = 2 /\ disk.weights.content = 4

\* C2: in a single-device run, once the ratio (sum of the last training
\* batch's gradient norms over the epoch-0 sum) has first been below 1e-6 at
\* epoch e, no later epoch is ever started, so no batch of an epoch > e is
\* processed; the run returns as Converged having executed e + 1 epochs, and
\* the final checkpoint has been written.
C2_ConvergedAtFirstEpochBelow ==
  (opt \in Single /\ h_firstBelow # -1) =>
    /\ epoch = h_firstBelow
    /\ h_firstBelow < num_epochs
    /\ h_trained <= (h_firstBelow + 1) * nTrain
    /\ pc # "error"
    /\ pc \in {"final", "returned"} => outcome = "Converged"
    /\ pc = "returned" =>
         /\ h_final
         /\ h_trained = (h_firstBelow + 1) * nTrain
         /\ Len(disk.metrics.content) = h_firstBelow + 1

\* the scenario of the spec: below tolerance at epoch 3 of a larger budget
C2_Witness ==
  /\ opt \in Single /\ pc = "returned"
  /\ h_firstBelow = 3 /\ num_epochs >= 10
  /\ outcome = "Converged" /\ epoch = 3

\* C3: the distributed optimizer stops like the single-device one: once the
\* ratio of an epoch has been below 1e-6 no later epoch is started, and the
\* run returns having executed that many epochs (all num_epochs epochs when
\* the ratio never was below).
C3_DistStopsLikeSingle ==
  opt = "dist" =>
    /\ h_firstBelow # -1 => epoch = h_firstBelow
    /\ pc = "returned" =>
         /\ h_final
         /\ epoch + 1 = (IF h_firstBelow # -1 THEN h_firstBelow + 1
                         ELSE num_epochs)

\* the period the claim gives each optimizer
ClaimedPeriod(o) == IF o \in Single THEN 100 ELSE 5
DecisionMade == "checkpoint_decision" \in Range(h_events)

C4_WitnessDist ==
  /\ opt = "dist" /\ epoch = 5 /\ pc = "loop_head"
  /\ h_periodic = 5 /\ h_nPeriodic = 2
  /\ Len(disk.metrics.content) = 6

\* the order of one epoch: every training batch, every validation batch,
\* every test batch, then logging, checkpoint decision, termination decision
Repeat(x, n) == [i \in 1..n |-> x]
EpochTail(o) ==
  IF o \in Single
  THEN <<"gradnorm", "tensorboard", "storage", "display", "reset",
         "checkpoint_decision", "termination_decision">>
  ELSE <<"tensorboard", "storage", "display", "reset", "checkpoint_decision">>
EpochOrder ==
  Repeat("train", nTrain) \o Repeat("val", nVal) \o Repeat("test", nTest)
    \o EpochTail(opt)
IsPrefix(s, t) == Len(s) <= Len(t) /\ \A i \in 1..Len(s) : s[i] = t[i]

\* C5: in every epoch of every optimizer what has been executed so far is a
\* prefix of: all training batches, all validation batches, all test
\* batches, metric logging (gradient norm, telemetry, storage arrays,
\* display, reset), checkpoint decision, termination decision (the loop test
\* itself in the distributed optimizer); and the next epoch begins only
\* when the whole order, checkpoint decision included, has been executed.
C5_PhaseOrder ==
  /\ [](IsPrefix(h_events, EpochOrder))
  /\ [][(epoch' # epoch /\ epoch >= 0) => h_events = EpochOrder]_vars
  /\ [][(h_trained' # h_trained /\ epoch >= 1) =>
          (epoch' = epoch /\ Count("train", h_events') >= 1)]_vars

C5_Witness ==
  /\ epoch = 1 /\ opt \in Single
  /\ nTrain = 2 /\ nVal = 2 /\ nTest = 1
  /\ h_events = EpochOrder

\* C6: the weights have been updated exactly once per training batch
\* processed, a step that processes a training batch applies exactly one
\* update, and no step of the validation or test phase changes the weights.
C6_WeightsChangeOnlyInTraining ==
  /\ [](weights = h_trained)
  /\ [][(h_trained' # h_trained) =>
          (h_trained' = h_trained + 1 /\ weights' = weights + 1)]_vars
  /\ [][(pc \in {"val", "test"}) => (weights' = weights)]_vars

C6_Witness ==
  /\ opt \in Single /\ epoch = 1 /\ pc = "gradnorm"
  /\ nTrain = 2 /\ nVal = 2 /\ nTest = 2
  /\ Count("val", h_events) = 2 /\ Count("test", h_events) = 2
  /\ weights = 4

\* C7: in the single-device optimizers, once the gradient-norm block of an
\* epoch has run, sum_gradient_norms is the sum over the trainable variables
\* of the norms of the epoch's LAST training batch, the baseline is the sum
\* obtained that way at epoch 0, and relative_gradient_norm is the one over
\* the other; the baseline, once assigned, never changes.
C7_GradientNormOfLastBatch ==
  /\ []((opt \in Single /\ "gradnorm" \in Range(h_events)) =>
          /\ sum_gradient_norms = SumSeq(h_last)
          /\ initial_sum_gradient_norms = h_sum0
          /\ relative_gradient_norm = <<SumSeq(h_last), h_sum0>>)
  /\ [][(initial_sum_gradient_norms # -1) =>
          (initial_sum_gradient_norms' = initial_sum_gradient_norms)]_vars
  /\ [][(epoch >= 1) => (h_sum0' = h_sum0)]_vars

C7_Witness ==
  /\ opt \in Single /\ epoch = 2 /\ pc = "tensorboard"
  /\ nTrain = 2
  /\ initial_sum_gradient_norms = TolInv + 1
  /\ sum_gradient_norms = 2
  /\ relative_gradient_norm = <<2, TolInv + 1>>

\* what one epoch records into the accumulators: one value per batch and
\* accumulator of its phase
EpochRecords ==
  IF opt = "dist" THEN nTrain * Cardinality(TrainNamesDist)
  ELSE nTrain * Cardinality(TrainNames(opt)) + nVal * Cardinality(ValNames(opt))
       + nTest * Cardinality(TestNames(opt))
Before(x, y, s) ==
  \A j \in DOMAIN s : s[j] = y => \E i \in 1..(j - 1) : s[i] = x

\* C8: in every epoch of every optimizer update_storage_arrays and
\* reset_metrics are called at most once, exactly once each by the time of
\* the checkpoint decision, the snapshot before the reset and the reset
\* after telemetry and display; the snapshot holds the epoch's recorded
\* values, and a checkpoint written in that epoch comes after both and
\* persists a history whose last entry is that snapshot.
C8_SnapshotThenReset ==
  /\ Count("storage", h_events) <= 1
  /\ Count("reset", h_events) <= 1
  /\ Before("storage", "reset", h_events)
  /\ Before("tensorboard", "reset", h_events)
  /\ Before("display", "reset", h_events)
  /\ Before("reset", "checkpoint_decision", h_events)
  /\ Len(storage) = (IF "storage" \in Range(h_events) THEN epoch + 1
                     ELSE IF epoch < 0 THEN 0 ELSE epoch)
  /\ \A i \in DOMAIN storage : storage[i] = EpochRecords
  /\ (epoch >= 0 /\ h_periodic = epoch) =>
       /\ DecisionMade
       /\ Len(disk.metrics.content) = epoch + 1
       /\ disk.metrics.content[epoch + 1] = EpochRecords

C8_Witness ==
  /\ opt = "aware" /\ epoch = 0 /\ pc = "terminate"
  /\ nTrain = 2 /\ nVal = 1 /\ nTest = 1
  /\ h_periodic = 0
  /\ disk.metrics.content = <<19>>

\* the accumulators each optimizer names for a phase; for the distributed
\* optimizer they include the full train, validation and test losses
ValNamesDist == {"mean_loss_val", "mean_loss_val_vae", "mean_loss_val_encoder",
                 "mean_loss_val_prior", "mean_loss_val_post_draw"}
TestNamesDist == {"mean_loss_test", "mean_loss_test_vae",
                  "mean_loss_test_encoder", "mean_loss_test_prior",
                  "mean_loss_test_post_draw"}
PhaseAccumulators(o, p) ==
  IF o = "dist"
  THEN (IF p = "train" THEN TrainNamesDist \cup {"mean_loss_train"}
        ELSE IF p = "val" THEN ValNamesDist ELSE TestNamesDist)
  ELSE (IF p = "train" THEN TrainNames(o)
        ELSE IF p = "val" THEN ValNames(o) ELSE TestNames(o))
CountsMatch(o) ==
  \A p \in {"train", "val", "test"} :
    \A n \in PhaseAccumulators(o, p) : acc[n] = h_since[p]

\* C9: at every point of the epoch loop of each of the three optimizers,
\* every loss accumulator of a phase holds as many records as batches of
\* that phase have been processed since the last reset.
C9_AccumulatorCounts == CountsMatch(opt)

\* the same, for the two single-device optimizers only
C9_SingleDeviceCounts == opt \in Single => CountsMatch(opt)

\* C10: in the distributed optimizer total_loss_train and batch_counter are
\* 0 when an epoch begins; during the training phase they are the sum and
\* the number of the reduced losses of THIS epoch's batches so far; and once
\* the training phase is over metrics.mean_loss_train is the sum of this
\* epoch's batch losses over the number of this epoch's batches.
C10_DistMeanTrainLoss ==
  /\ []((opt = "dist" /\ pc = "train") =>
          /\ total_loss_train = SumSeq(h_losses)
          /\ batch_counter = Len(h_losses)
          /\ batch_counter = batch)
  /\ []((opt = "dist" /\ epoch >= 0 /\ pc # "train"
           /\ outcome # "ZeroDivisionError") =>
          /\ Len(h_losses) = nTrain
          /\ mean_loss_train = <<SumSeq(h_losses), nTrain>>)
  /\ [][(opt = "dist" /\ epoch' # epoch) =>
          (total_loss_train' = 0 /\ batch_counter' = 0)]_vars
  /\ [][(opt = "dist" /\ h_trained' # h_trained) =>
          (batch_counter' = batch_counter + 1
             /\ total_loss_train' - total_loss_train \in BatchLosses)]_vars

C10_Witness ==
  /\ opt = "dist" /\ epoch = 1 /\ pc = "val"
  /\ nTrain = 2 /\ h_losses = <<1, 2>>
  /\ mean_loss_train = <<3, 2>>

(* ==================== one distributed training step =================== *)
\* optimize_distributed: dist_train_step runs train_step on every replica
\* with that replica's share of the global batch and SUM-reduces what the
\* replicas return.
MaxReplicas == 2
MaxBatchSize == 2
ExampleLosses == {1, 2}

Replicas == 1..num_replicas

\* tf.reduce_sum over the per-example losses of the examples replica r holds
ReplicaSum(r) ==
  SumSeq([i \in 1..Len(example_losses) |->
            IF shard[i] = r THEN example_losses[i] ELSE 0])

\* unscaled_replica_batch_loss_train * (1./hyperp.batch_size), summed: the
\* value is kept as the fraction <<numerator, denominator>>
ScaledReplicaLoss(total) == <<total, batch_size>>

\* dist_strategy.reduce(ReduceOp.SUM, per_replica_losses, axis=None): the
\* per-replica fractions share the denominator
RECURSIVE SumOver(_, _)
SumOver(f, n) == IF n = 0 THEN 0 ELSE f[n] + SumOver(f, n - 1)
ReduceSum(losses) == SumOver(losses, num_replicas)

\* global batches the sequence can yield: batch_size examples, or fewer in
\* the last batch of a sequence whose length is no multiple of batch_size
StepInputs ==
  UNION { [num_replicas : {R}, batch_size : {bs},
           example_losses : [1..n -> ExampleLosses],
           shard : [1..n -> 1..R]] :
          <<R, bs, n>> \in {t \in (1..MaxReplicas) \X (1..MaxBatchSize)
                                   \X (1..MaxBatchSize) : t[3] <= t[2]} }

StepInit ==
  /\ TrainingIdle /\ HyperIdle /\ PdeIdle /\ MpiIdle
  /\ \E x \in StepInputs :
       /\ num_replicas = x.num_replicas
       /\ batch_size = x.batch_size
       /\ example_losses = x.example_losses
       /\ shard = x.shard
       /\ rpc = [r \in 1..x.num_replicas |-> "idle"]
       /\ replica_loss = [r \in 1..x.num_replicas |-> 0]
  /\ mirrored = 0
  /\ step_loss = <<>>

stepinputs == <<num_replicas, batch_size, example_losses, shard>>

\* dist_strategy.experimental_run_v2(train_step, args=...): every replica
\* enters train_step
RunV2 ==
  /\ \A r \in Replicas : rpc[r] = "idle"
  /\ rpc' = [r \in Replicas |-> "tape"]
  /\ UNCHANGED <<notstep, stepinputs, replica_loss, mirrored, step_loss>>

\* the forward pass and the four loss terms, under the GradientTape
ReplicaLoss(r) ==
  /\ rpc[r] = "tape"
  /\ replica_loss' = [replica_loss EXCEPT ![r] = ReplicaSum(r)]
  /\ rpc' = [rpc EXCEPT ![r] = "loss"]
  /\ UNCHANGED <<notstep, stepinputs, mirrored, step_loss>>

\* gradients = tape.gradient(scaled_replica_batch_loss_train, ...)
ReplicaGradient(r) ==
  /\ rpc[r] = "loss"
  /\ rpc' = [rpc EXCEPT ![r] = "gradient"]
  /\ UNCHANGED <<notstep, stepinputs, replica_loss, mirrored, step_loss>>

\* the replica calls optimizer.apply_gradients; in a replica context the
\* call hands the gradients to the cross-replica merge and waits there
ReplicaApplyGradients(r) ==
  /\ rpc[r] = "gradient"
  /\ rpc' = [rpc EXCEPT ![r] = "merge"]
  /\ UNCHANGED <<notstep, stepinputs, replica_loss, mirrored, step_loss>>

ApplyPerReplica ==
  /\ \E r \in Replicas : rpc[r] = "merge"
  /\ mirrored' = mirrored + 1
  /\ rpc' = [r \in Replicas |-> IF rpc[r] = "merge" THEN "metrics" ELSE rpc[r]]
  /\ UNCHANGED <<notstep, stepinputs, replica_loss, step_loss>>

\* the merge of optimizer.apply_gradients: once every replica has called it,
\* the gradients are all-reduced and the mirrored variables updated once
AllReduceApply ==
  /\ \A r \in Replicas : rpc[r] = "merge"
  /\ mirrored' = mirrored + 1
  /\ rpc' = [r \in Replicas |-> "metrics"]
  /\ UNCHANGED <<notstep, stepinputs, replica_loss, step_loss>>

\* metrics.mean_loss_train_vae(...) ... _post_draw(...), then the return
ReplicaReturn(r) ==
  /\ rpc[r] = "metrics"
  /\ rpc' = [rpc EXCEPT ![r] = "returned"]
  /\ UNCHANGED <<notstep, stepinputs, replica_loss, mirrored, step_loss>>

\* return dist_strategy.reduce(tf.distribute.ReduceOp.SUM, ...)
Reduce ==
  /\ \A r \in Replicas : rpc[r] = "returned"
  /\ step_loss' = ScaledReplicaLoss(ReduceSum(replica_loss))
  /\ rpc' = [r \in Replicas |-> "done"]
  /\ UNCHANGED <<notstep, stepinputs, replica_loss, mirrored>>

StepNext ==
  \/ RunV2
  \/ \E r \in Replicas : ReplicaLoss(r)
  \/ \E r \in Replicas : ReplicaGradient(r)
  \/ \E r \in Replicas : ReplicaApplyGradients(r)
  \/ AllReduceApply
  \/ \E r \in Replicas : ReplicaReturn(r)
  \/ Reduce

StepSpec == StepInit /\ [][StepNext]_vars

\* C11: whatever the partition of the global batch over the replicas, the
\* value dist_train_step returns is the mean of the per-example losses of
\* the batch.
C11_ReducedLossIsBatchMean ==
  step_loss # <<>> =>
    step_loss[1] * Len(example_losses) = SumSeq(example_losses) * step_loss[2]

\* what does hold of every batch: the returned value is the sum of all
\* per-example losses over hyperp.batch_size, however the batch is split
C11_PartitionIndependent ==
  step_loss # <<>> => step_loss = <<SumSeq(example_losses), batch_size>>

MaxKeys == 3
MaxVals == 2
KeyNames == <<"a", "b", "c", "d">>

\* a candidate value is a scalar or a Python list
Scalar(n) == [isList |-> FALSE, items |-> <<n>>]
ListValue(l) == [isList |-> TRUE, items |-> l]
CandidateValues == {Scalar(1), ListValue(<<1, 2>>)}
IsList(j) == j.isList

CandidateLists == UNION {[1..n -> CandidateValues] : n \in 0..MaxVals}

\* the dictionaries handed to the function, keys in insertion order
Mapping(vals) == [n \in 1..Len(vals) |-> [key |-> KeyNames[n], vals |-> vals[n]]]
KeyCounts == 0..(IF MaxKeys < Len(KeyNames) THEN MaxKeys ELSE Len(KeyNames))
HyperpDicts(k) == {Mapping(v) : v \in [1..k -> CandidateLists]}

\* list(hyperp_dict.keys()), list(hyperp_dict.values())
HyperpKeys(h) == [n \in 1..Len(h) |-> h[n].key]
HyperpVals(h) == [n \in 1..Len(h) |-> h[n].vals]

\* temp = [i], then temp.append(j) or temp.extend(j); when combos is the
\* last hyperparameter's list j is a candidate value, otherwise j is a list
\* built by the recursive call
Temp(i, j, is_last_value) ==
  IF is_last_value /\ IsList(j)
    THEN Append(<<i>>, j)
    ELSE <<i>> \o (IF is_last_value THEN <<j>> ELSE j)

\* for j in combos: ... output.append(temp)
LoopJ(i, combos, is_last_value) ==
  [n \in 1..Len(combos) |-> Temp(i, combos[n], is_last_value)]

RECURSIVE LoopJFirst(_, _, _)
LoopJFirst(curr_hyperp, combos, is_last_value) ==
  IF combos = <<>> THEN <<>>
  ELSE [n \in 1..Len(curr_hyperp) |->
          Temp(curr_hyperp[n], combos[1], is_last_value)]
       \o LoopJFirst(curr_hyperp, Tail(combos), is_last_value)

\* for i in curr_hyperp: for j in combos: ...
RECURSIVE LoopI(_, _, _)
LoopI(curr_hyperp, combos, is_last_value) ==
  IF curr_hyperp = <<>> THEN <<>>
  ELSE LoopJ(curr_hyperp[1], combos, is_last_value)
       \o LoopI(Tail(curr_hyperp), combos, is_last_value)

\* generate_combinations(curr_hyperp, hyperp_vals), for a non-empty
\* hyperp_vals
RECURSIVE generate_combinations(_, _)
generate_combinations(curr_hyperp, hyperp_vals) ==
  IF Len(hyperp_vals) > 1
    THEN LoopI(curr_hyperp,
               generate_combinations(hyperp_vals[1], Tail(hyperp_vals)), FALSE)
    ELSE LoopI(curr_hyperp, hyperp_vals[1], TRUE)

\* curr_scenario[key] = value for key, value in zip(hyperp_keys, scenario_list)
Zipped(hyperp_keys, scenario_list) ==
  1..(IF Len(hyperp_keys) < Len(scenario_list)
        THEN Len(hyperp_keys) ELSE Len(scenario_list))
Scenario(hyperp_keys, scenario_list) ==
  [k \in {hyperp_keys[n] : n \in Zipped(hyperp_keys, scenario_list)} |->
     scenario_list[CHOOSE n \in Zipped(hyperp_keys, scenario_list) :
                     /\ hyperp_keys[n] = k
                     /\ \A m \in Zipped(hyperp_keys, scenario_list) :
                          hyperp_keys[m] = k => m <= n]]
assemble_scenarios_dictionaries(combinations_list, hyperp_keys) ==
  [n \in 1..Len(combinations_list) |->
     Scenario(hyperp_keys, combinations_list[n])]

\* hyperp_vals[0] (line 28) and, in the outermost generate_combinations,
\* hyperp_vals[0] of an empty hyperp_vals[1:] (line 53) raise IndexError
RaisesIndexError(h) ==
  IF Len(h) = 0 THEN TRUE ELSE Len(Tail(HyperpVals(h))) = 0

get_hyperparameter_combinations(h) ==
  assemble_scenarios_dictionaries(
    generate_combinations(HyperpVals(h)[1], Tail(HyperpVals(h))),
    HyperpKeys(h))

HyperInit ==
  /\ TrainingIdle /\ StepIdle /\ PdeIdle /\ MpiIdle
  /\ \E k \in KeyCounts : hyperp_dict \in HyperpDicts(k)
  /\ scenarios = <<>>
  /\ hp_pc = "called"

\* the call returns
Return ==
  /\ hp_pc = "called"
  /\ ~RaisesIndexError(hyperp_dict)
  /\ scenarios' = get_hyperparameter_combinations(hyperp_dict)
  /\ hp_pc' = "returned"
  /\ UNCHANGED <<nothyper, hyperp_dict>>

\* the call raises
RaiseIndexError ==
  /\ hp_pc = "called"
  /\ RaisesIndexError(hyperp_dict)
  /\ hp_pc' = "IndexError"
  /\ UNCHANGED <<nothyper, hyperp_dict, scenarios>>

HyperNext == Return \/ RaiseIndexError

HyperSpec == HyperInit /\ [][HyperNext]_vars

\* ---- what the claims speak of ----
RECURSIVE Product(_)
Product(lens) == IF lens = <<>> THEN 1 ELSE lens[1] * Product(Tail(lens))
Lens(h) == [n \in 1..Len(h) |-> Len(h[n].vals)]

\* the scenario that takes candidate idx[n] of the n-th key
Pick(h, idx) ==
  [k \in {h[n].key : n \in 1..Len(h)} |->
     LET n == CHOOSE m \in 1..Len(h) : h[m].key = k IN h[n].vals[idx[n]]]
IndexTuples(h) ==
  {idx \in [1..Len(h) -> 1..MaxVals + 1] :
     \A n \in 1..Len(h) : idx[n] <= Len(h[n].vals)}

\* the candidate indices of the p-th tuple (p from 0) in lexicographic
\* order, the last key varying fastest
RECURSIVE Weight(_, _)
Weight(lens, n) ==
  IF n >= Len(lens) THEN 1 ELSE lens[n + 1] * Weight(lens, n + 1)
LexIndex(lens, p) ==
  [n \in 1..Len(lens) |-> ((p \div Weight(lens, n)) % lens[n]) + 1]

WellFormed(h) == Len(h) >= 1 /\ \A n \in 1..Len(h) : Len(h[n].vals) >= 1

\* C13: a mapping of k >= 1 names to non-empty candidate lists gives
\* exactly the product of the list lengths many scenarios, the whole
\* Cartesian product, each scenario with exactly the input's keys.
C13_FullCartesianProduct ==
  (hp_pc # "called" /\ WellFormed(hyperp_dict)) =>
    /\ hp_pc = "returned"
    /\ Len(scenarios) = Product(Lens(hyperp_dict))
    /\ Range(scenarios) = {Pick(hyperp_dict, idx) : idx \in IndexTuples(hyperp_dict)}
    /\ \A n \in 1..Len(scenarios) :
         DOMAIN scenarios[n] = Range(HyperpKeys(hyperp_dict))

\* the same for mappings of two or more names
C13_ProductForTwoOrMoreKeys ==
  (hp_pc # "called" /\ WellFormed(hyperp_dict) /\ Len(hyperp_dict) >= 2) =>
    /\ hp_pc = "returned"
    /\ Len(scenarios) = Product(Lens(hyperp_dict))
    /\ Range(scenarios) = {Pick(hyperp_dict, idx) : idx \in IndexTuples(hyperp_dict)}
    /\ \A n \in 1..Len(scenarios) :
         DOMAIN scenarios[n] = Range(HyperpKeys(hyperp_dict))

\* C14: the list returned is a function of the mapping alone: scenario
\* number p is the one with the p-th tuple of candidate indices in
\* lexicographic order (first key slowest, last key fastest), and the call
\* leaves the mapping as it was.
C14_LexicographicOrder ==
  /\ [](hp_pc = "returned" =>
          /\ Len(scenarios) = Product(Lens(hyperp_dict))
          /\ \A p \in 1..Len(scenarios) :
               scenarios[p] =
                 Pick(hyperp_dict, LexIndex(Lens(hyperp_dict), p - 1)))
  /\ [][hyperp_dict' = hyperp_dict]_vars

C14_Witness ==
  /\ hp_pc = "returned"
  /\ HyperpVals(hyperp_dict) = << <<Scalar(1), ListValue(<<1, 2>>)>>,
                                  <<Scalar(1), ListValue(<<1, 2>>)>> >>
  /\ scenarios = << [a |-> Scalar(1), b |-> Scalar(1)],
                    [a |-> Scalar(1), b |-> ListValue(<<1, 2>>)],
                    [a |-> ListValue(<<1, 2>>), b |-> Scalar(1)],
                    [a |-> ListValue(<<1, 2>>), b |-> ListValue(<<1, 2>>)] >>

\* C15: an empty mapping, or a mapping with an empty candidate list, makes
\* the call fail with an error; it never returns normally.
C15_MalformedMappingRaises ==
  (hp_pc # "called" /\ ~WellFormed(hyperp_dict)) => hp_pc = "IndexError"

(* ========= SolveFEMPoissonHeatLinearAssembled.solve_pde =============== *)
MaxRows == 3
ParameterEntries == {0, 1}

\* the assembled operators: square, of the dimension of the parameter
Dimension == 2
MassMatrices == { << <<1, 0>>, <<0, 1>> >>, << <<1, 1>>, <<0, 1>> >> }
ForwardMatrices == { << <<1, 0>>, <<0, 1>> >>, << <<2, 1>>, <<0, 1>> >> }
LoadVectors == { << <<0>>, <<0>> >>, << <<1>>, <<2>> >> }

\* obs_indices as the caller passes them: column numbers from 0, as a
\* vector (rank 1) or as a one-column array (rank 2)
ObsIndices == { [idx |-> i, rank |-> r] :
                <<i, r>> \in {<<0>>, <<1, 0>>} \X {1, 2} }
Solvers ==
  [obs_type : {"obs"}, obs_indices : ObsIndices,
   forward_matrix : ForwardMatrices, mass_matrix : MassMatrices,
   load_vector : LoadVectors]
  \cup
  [obs_type : {"full"}, obs_indices : {[idx |-> <<0>>, rank |-> 2]},
   forward_matrix : ForwardMatrices, mass_matrix : MassMatrices,
   load_vector : LoadVectors]

ParameterBatches ==
  UNION {[1..N -> [1..Dimension -> ParameterEntries]] : N \in 1..MaxRows}

\* tf.transpose, tf.linalg.matmul, + and tf.expand_dims(row, axis=0) on
\* matrices kept as lists of rows
Rows(A) == Len(A)
Cols(A) == Len(A[1])
Transpose(A) == [c \in 1..Cols(A) |-> [r \in 1..Rows(A) |-> A[r][c]]]
MatMul(A, B) ==
  [r \in 1..Rows(A) |->
     [c \in 1..Cols(B) |->
        SumSeq([k \in 1..Cols(A) |-> A[r][k] * B[k][c]])]]
MatAdd(A, B) ==
  [r \in 1..Rows(A) |-> [c \in 1..Cols(A) |-> A[r][c] + B[r][c]]]
ExpandDims(row) == <<row>>

\* rhs and then the solution of one parameter row (lines 27-30, 32-35)
Rhs(row) ==
  MatAdd(MatMul(ExpandDims(row), Transpose(solver.mass_matrix)),
         Transpose(solver.load_vector))
Solution(row) == MatMul(Rhs(row), Transpose(solver.forward_matrix))

ConcatInFront(st, solution) == solution \o st
\* tf.concat([state, solution], axis=0)
Concat(st, solution) == st \o solution

\* tf.gather(state, self.obs_indices, axis=1): the columns named, in the
\* order named; the shape of the indices replaces the column axis
Gather(st, ind) ==
  [shape |-> IF ind.rank = 1 THEN <<Len(st), Len(ind.idx)>>
                             ELSE <<Len(st), Len(ind.idx), 1>>,
   rows |-> [r \in 1..Len(st) |->
               [c \in 1..Len(ind.idx) |-> st[r][ind.idx[c] + 1]]]]

\* tf.squeeze: every axis of size 1 is removed
IsNotOne(d) == d # 1
Squeeze(t) == [shape |-> SelectSeq(t.shape, IsNotOne), rows |-> t.rows]

PdeInit ==
  /\ TrainingIdle /\ StepIdle /\ HyperIdle /\ MpiIdle
  /\ solver \in Solvers
  /\ parameters \in ParameterBatches
  /\ n_row = 0
  /\ state = <<>>
  /\ state_obs = NoTensor
  /\ returned = NoTensor
  /\ pde_pc = "first"

\* lines 27-30: the state of parameters[0,:]
SolveFirst ==
  /\ pde_pc = "first"
  /\ state' = Solution(parameters[1])
  /\ n_row' = 1
  /\ pde_pc' = "loop"
  /\ UNCHANGED <<notpde, solver, parameters, state_obs, returned>>

\* lines 31-36: one iteration of for n in range(1, parameters.shape[0])
SolveNext ==
  /\ pde_pc = "loop"
  /\ n_row < Len(parameters)
  /\ state' = Concat(state, Solution(parameters[n_row + 1]))
  /\ n_row' = n_row + 1
  /\ UNCHANGED <<notpde, solver, parameters, state_obs, returned, pde_pc>>

\* the range is exhausted
SolveDone ==
  /\ pde_pc = "loop"
  /\ n_row = Len(parameters)
  /\ pde_pc' = "measure"
  /\ UNCHANGED <<notpde, solver, parameters, n_row, state, state_obs,
                 returned>>

\* line 40
GatherObs ==
  /\ pde_pc = "measure"
  /\ solver.obs_type = "obs"
  /\ state_obs' = Gather(state, solver.obs_indices)
  /\ pde_pc' = "squeeze"
  /\ UNCHANGED <<notpde, solver, parameters, n_row, state, returned>>

\* line 41
ReturnSqueezed ==
  /\ pde_pc = "squeeze"
  /\ returned' = Squeeze(state_obs)
  /\ pde_pc' = "returned"
  /\ UNCHANGED <<notpde, solver, parameters, n_row, state, state_obs>>

\* line 43
ReturnState ==
  /\ pde_pc = "measure"
  /\ solver.obs_type # "obs"
  /\ returned' = [shape |-> <<Rows(state), Cols(state)>>, rows |-> state]
  /\ pde_pc' = "returned"
  /\ UNCHANGED <<notpde, solver, parameters, n_row, state, state_obs>>

PdeNext ==
  \/ SolveFirst \/ SolveNext \/ SolveDone
  \/ GatherObs \/ ReturnSqueezed \/ ReturnState

PdeSpec == PdeInit /\ [][PdeNext]_vars

\* ---- what the claims speak of ----
\* (p * mass_matrix^T + load_vector^T) * forward_matrix^T, entry by entry
ExpectedEntry(p, c) ==
  SumSeq([k \in 1..Dimension |->
    (SumSeq([d \in 1..Dimension |-> p[d] * solver.mass_matrix[k][d]])
       + solver.load_vector[k][1]) * solver.forward_matrix[c][k]])
ExpectedRow(p) == [c \in 1..Dimension |-> ExpectedEntry(p, c)]

\* C16: the state has one row per parameter row, row n computed from
\* parameter row n alone and standing at position n; the gather picks
\* columns of every row and neither reorders nor drops rows.
C16_RowOrderPreserved ==
  /\ pde_pc = "loop" =>
       /\ Len(state) = n_row
       /\ \A n \in 1..n_row : state[n] = ExpectedRow(parameters[n])
  /\ pde_pc \in {"measure", "squeeze", "returned"} =>
       /\ Len(state) = Len(parameters)
       /\ \A n \in 1..Len(parameters) : state[n] = ExpectedRow(parameters[n])
  /\ pde_pc \in {"squeeze", "returned"} /\ solver.obs_type = "obs" =>
       /\ Len(state_obs.rows) = Len(parameters)
       /\ \A n \in 1..Len(parameters) :
            state_obs.rows[n] =
              [c \in 1..Len(solver.obs_indices.idx) |->
                 ExpectedRow(parameters[n])[solver.obs_indices.idx[c] + 1]]

C16_Witness ==
  /\ pde_pc = "squeeze"
  /\ Len(parameters) = 3
  /\ parameters[1] # parameters[2] /\ parameters[2] # parameters[3]
  /\ state[1] # state[2] /\ state[2] # state[3] /\ state[1] # state[3]
  /\ solver.obs_indices.idx = <<1, 0>>

ObsDimension ==
  IF solver.obs_type = "obs" THEN Len(solver.obs_indices.idx) ELSE Dimension

\* C17: whatever the observation type, the result is two-dimensional, of
\* shape (N x obs_dimension), also for N = 1 and for one observation index.
C17_ResultIsTwoDimensional ==
  pde_pc = "returned" => returned.shape = <<Len(parameters), ObsDimension>>

\* what holds: the full state is (N x dimension) and the observed one is
\* (N x obs_dimension) with the axes of size 1 removed
C17_ShapeUpToSqueeze ==
  pde_pc = "returned" =>
    IF solver.obs_type = "obs"
      THEN returned.shape =
             SelectSeq(<<Len(parameters), ObsDimension>>, IsNotOne)
      ELSE returned.shape = <<Len(parameters), Dimension>>

(* ========================= the MPI scheduler ========================== *)
\* scheduler_cpu_multinode_distributed_process_training_vae.py: rank 0
\* collects the registrations, keeps one worker per node and hands the
\* scenarios to schedule_runs; every other rank registers and then runs
\* one training subprocess per scenario it receives.
MaxProcs == 4
MaxScenarios == 2
Hostnames == {"node1", "node2"}

\* class FLAGS; the workers register with the literal tag 1
RECEIVED == 1
RUN_FINISHED == 2
EXIT == 3
NEW_RUN == 4
RegistrationTag == 1

\* exit statuses of the training subprocess: success and one failure;
\* Popen.returncode is None until the subprocess has been waited for
ReturnCodes == {0, 1}
NoReturnCode == <<>>

Workers == 1..(nprocs - 1)
Message(tag, data) == [tag |-> tag, data |-> data]

\* comm.isend(data, dest, tag) followed by req.wait(): the message is in
\* flight to dest, behind the earlier messages of the same sender
Send(chan, w, msg) == [chan EXCEPT ![w] = Append(@, msg)]
Pending(chan, w, tag) == chan[w] # <<>> /\ chan[w][1].tag = tag
Receive(chan, w) == [chan EXCEPT ![w] = Tail(@)]

MpiInit ==
  /\ TrainingIdle /\ StepIdle /\ HyperIdle /\ PdeIdle
  /\ nprocs \in 1..MaxProcs
  /\ hostnames \in [1..(nprocs - 1) -> Hostnames]
  /\ num_scenarios \in 0..MaxScenarios
  /\ cpc = "collect"
  /\ CoordinatorStart
  /\ wpc = [w \in 1..(nprocs - 1) |-> "register"]
  /\ to_coord = [w \in 1..(nprocs - 1) |-> <<>>]
  /\ to_worker = [w \in 1..(nprocs - 1) |-> <<>>]
  /\ alive = [w \in 1..(nprocs - 1) |-> 0]
  /\ h_received = [w \in 1..(nprocs - 1) |-> 0]
  /\ h_started = [w \in 1..(nprocs - 1) |-> 0]
  /\ h_finished = [w \in 1..(nprocs - 1) |-> 0]
  /\ returncode = [w \in 1..(nprocs - 1) |-> NoReturnCode]

mpiinputs == <<nprocs, hostnames, num_scenarios>>
coordvars == <<cpc, processes, proc_index, nodes, active_procs,
               proc_to_cpu_mapping, sched, h_exit>>
h_worker == <<alive, h_received, h_started, h_finished, returncode>>

(* ------------------------------ rank 0 -------------------------------- *)
AllButOneRegistered(p) == ~(Len(p) < nprocs - 2)
\* the negation of the loop condition len(processes) < nprocs - 1
AllRegistered(p) == ~(Len(p) < nprocs - 1)

\* a registration loop that dismisses a worker as soon as its registration
\* shows a host already registered
CollectAndDismiss(w) ==
  /\ cpc = "collect"
  /\ ~AllRegistered(processes)
  /\ Pending(to_coord, w, RegistrationTag)
  /\ processes' = Append(processes, to_coord[w][1].data)
  /\ to_coord' = Receive(to_coord, w)
  /\ IF \E i \in 1..Len(processes) :
          processes[i].hostname = to_coord[w][1].data.hostname
     THEN to_worker' = Send(to_worker, w, Message(EXIT, <<>>))
     ELSE to_worker' = to_worker
  /\ UNCHANGED <<notmpi, mpiinputs, cpc, proc_index, nodes, active_procs,
                 proc_to_cpu_mapping, sched, h_exit, wpc, h_worker>>

\* lines 74-80: Iprobe finds a message with tag 1 and it is received
CollectRegistration(w) ==
  /\ cpc = "collect"
  /\ ~AllRegistered(processes)
  /\ Pending(to_coord, w, RegistrationTag)
  /\ processes' = Append(processes, to_coord[w][1].data)
  /\ to_coord' = Receive(to_coord, w)
  /\ UNCHANGED <<notmpi, mpiinputs, cpc, proc_index, nodes, active_procs,
                 proc_to_cpu_mapping, sched, h_exit, wpc, to_worker,
                 h_worker>>

\* lines 81-86: the while loop ends
Collected ==
  /\ cpc = "collect"
  /\ AllRegistered(processes)
  /\ cpc' = "classify"
  /\ proc_index' = 1
  /\ nodes' = <<>>
  /\ active_procs' = <<>>
  /\ proc_to_cpu_mapping' = <<>>
  /\ UNCHANGED <<notmpi, mpiinputs, processes, sched, h_exit, wpc, to_coord,
                 to_worker, h_worker>>

\* lines 90-92: nodes[hostname] is created if absent, the rank appended
NodesWith(nd, proc_info) ==
  [h \in DOMAIN nd \cup {proc_info.hostname} |->
     IF h = proc_info.hostname
       THEN Append(IF h \in DOMAIN nd THEN nd[h] ELSE <<>>, proc_info.rank)
       ELSE nd[h]]

HasRoomForTwo(found) == Len(found) <= 2
\* line 95: len(nodes[proc_info['hostname']]) <= 1
HasRoom(found) == Len(found) <= 1

\* lines 88-97: the process is kept
ClassifyActive ==
  /\ cpc = "classify"
  /\ proc_index <= Len(processes)
  /\ LET proc_info == processes[proc_index]
         nd == NodesWith(nodes, proc_info)
     IN /\ HasRoom(nd[proc_info.hostname])
        /\ nodes' = nd
        /\ active_procs' = Append(active_procs, proc_info.rank)
        /\ proc_to_cpu_mapping' =
             [r \in DOMAIN proc_to_cpu_mapping \cup {proc_info.rank} |-> "cpu"]
  /\ proc_index' = proc_index + 1
  /\ UNCHANGED <<notmpi, mpiinputs, cpc, processes, sched, h_exit, wpc,
                 to_coord, to_worker, h_worker>>

\* lines 88-92, 98-100: the process is redundant and is sent EXIT
ClassifyRedundant ==
  /\ cpc = "classify"
  /\ proc_index <= Len(processes)
  /\ LET proc_info == processes[proc_index]
         nd == NodesWith(nodes, proc_info)
     IN /\ ~HasRoom(nd[proc_info.hostname])
        /\ nodes' = nd
        /\ to_worker' = Send(to_worker, proc_info.rank, Message(EXIT, <<>>))
        /\ h_exit' = h_exit \cup {proc_info.rank}
  /\ proc_index' = proc_index + 1
  /\ UNCHANGED <<notmpi, mpiinputs, cpc, processes, active_procs,
                 proc_to_cpu_mapping, sched, wpc, to_coord, h_worker>>

\* lines 102-106: schedule_runs(scenarios_list, active_procs, ...) is called
CallScheduleRuns ==
  /\ cpc = "classify"
  /\ proc_index > Len(processes)
  /\ cpc' = "schedule"
  /\ sched' = NoSchedule
  /\ UNCHANGED <<notmpi, mpiinputs, processes, proc_index, nodes,
                 active_procs, proc_to_cpu_mapping, h_exit, wpc, to_coord,
                 to_worker, h_worker>>

(* --------------------------- schedule_runs ---------------------------- *)
\* a scenario is sent to an active worker that is running none
ScheduleAssign(w) ==
  /\ cpc = "schedule"
  /\ sched.next <= num_scenarios
  /\ w \in Range(active_procs) \ sched.busy
  /\ to_worker' = Send(to_worker, w, Message(NEW_RUN, sched.next))
  /\ sched' = [sched EXCEPT !.next = @ + 1, !.busy = @ \cup {w}]
  /\ UNCHANGED <<notmpi, mpiinputs, cpc, processes, proc_index, nodes,
                 active_procs, proc_to_cpu_mapping, h_exit, wpc, to_coord,
                 h_worker>>

\* the completion message of a worker is received
ScheduleRunFinished(w) ==
  /\ cpc = "schedule"
  /\ Pending(to_coord, w, RUN_FINISHED)
  /\ to_coord' = Receive(to_coord, w)
  /\ sched' = [sched EXCEPT !.busy = @ \ {w}, !.done = @ + 1]
  /\ UNCHANGED <<notmpi, mpiinputs, cpc, processes, proc_index, nodes,
                 active_procs, proc_to_cpu_mapping, h_exit, wpc, to_worker,
                 h_worker>>

\* every scenario has been run: the active workers are sent EXIT
ScheduleExit ==
  /\ cpc = "schedule"
  /\ sched.done = num_scenarios
  /\ to_worker' = [w \in Workers |->
                     IF w \in Range(active_procs)
                       THEN Append(to_worker[w], Message(EXIT, <<>>))
                       ELSE to_worker[w]]
  /\ cpc' = "done"
  /\ UNCHANGED <<notmpi, mpiinputs, processes, proc_index, nodes,
                 active_procs, proc_to_cpu_mapping, sched, h_exit, wpc,
                 to_coord, h_worker>>

(* ----------------------------- a worker ------------------------------- *)
\* lines 112-116: the worker sends its proc_info with tag 1
Register(w) ==
  /\ wpc[w] = "register"
  /\ to_coord' = Send(to_coord, w,
                      Message(RegistrationTag,
                              [rank |-> w, hostname |-> hostnames[w]]))
  /\ wpc' = [wpc EXCEPT ![w] = "recv"]
  /\ UNCHANGED <<notmpi, mpiinputs, coordvars, to_worker, h_worker>>

\* a worker that takes EXIT for a scenario like any other message
ReceiveExitAsScenario(w) ==
  /\ wpc[w] = "recv"
  /\ Pending(to_worker, w, EXIT)
  /\ to_worker' = Receive(to_worker, w)
  /\ wpc' = [wpc EXCEPT ![w] = "popen"]
  /\ h_received' = [h_received EXCEPT ![w] = @ + 1]
  /\ UNCHANGED <<notmpi, mpiinputs, coordvars, to_coord, alive, h_started,
                 h_finished, returncode>>

\* lines 119-123: a message tagged EXIT ends the loop
ReceiveExit(w) ==
  /\ wpc[w] = "recv"
  /\ Pending(to_worker, w, EXIT)
  /\ to_worker' = Receive(to_worker, w)
  /\ wpc' = [wpc EXCEPT ![w] = "exited"]
  /\ UNCHANGED <<notmpi, mpiinputs, coordvars, to_coord, h_worker>>

\* lines 119-126: any other message is a scenario
ReceiveScenario(w) ==
  /\ wpc[w] = "recv"
  /\ to_worker[w] # <<>>
  /\ to_worker[w][1].tag # EXIT
  /\ to_worker' = Receive(to_worker, w)
  /\ wpc' = [wpc EXCEPT ![w] = "popen"]
  /\ h_received' = [h_received EXCEPT ![w] = @ + 1]
  /\ UNCHANGED <<notmpi, mpiinputs, coordvars, to_coord, alive, h_started,
                 h_finished, returncode>>

PopenWithoutWait(w) ==
  /\ wpc[w] = "popen"
  /\ alive' = [alive EXCEPT ![w] = @ + 1]
  /\ h_started' = [h_started EXCEPT ![w] = @ + 1]
  /\ returncode' = [returncode EXCEPT ![w] = NoReturnCode]
  /\ wpc' = [wpc EXCEPT ![w] = "recv"]
  /\ UNCHANGED <<notmpi, mpiinputs, coordvars, to_coord, to_worker,
                 h_received, h_finished>>

\* lines 129-130: proc = subprocess.Popen([...]); proc.returncode is None
\* while the subprocess runs
Popen(w) ==
  /\ wpc[w] = "popen"
  /\ alive' = [alive EXCEPT ![w] = @ + 1]
  /\ h_started' = [h_started EXCEPT ![w] = @ + 1]
  /\ returncode' = [returncode EXCEPT ![w] = NoReturnCode]
  /\ wpc' = [wpc EXCEPT ![w] = "wait"]
  /\ UNCHANGED <<notmpi, mpiinputs, coordvars, to_coord, to_worker,
                 h_received, h_finished>>

\* line 131: proc.wait() returns when the subprocess has exited, with any
\* exit status; the value wait() returns is dropped
Wait(w) ==
  /\ wpc[w] = "wait"
  /\ alive' = [alive EXCEPT ![w] = @ - 1]
  /\ \E status \in ReturnCodes :
       returncode' = [returncode EXCEPT ![w] = <<status>>]
  /\ wpc' = [wpc EXCEPT ![w] = "report"]
  /\ UNCHANGED <<notmpi, mpiinputs, coordvars, to_coord, to_worker,
                 h_received, h_started, h_finished>>

\* a worker that reports a run only when its subprocess exited with 0
ReportOnlySuccess(w) ==
  /\ wpc[w] = "report"
  /\ IF returncode[w] = <<0>>
     THEN /\ to_coord' = Send(to_coord, w, Message(RUN_FINISHED, <<>>))
          /\ h_finished' = [h_finished EXCEPT ![w] = @ + 1]
     ELSE UNCHANGED <<to_coord, h_finished>>
  /\ wpc' = [wpc EXCEPT ![w] = "recv"]
  /\ UNCHANGED <<notmpi, mpiinputs, coordvars, to_worker, alive, h_received,
                 h_started, returncode>>

\* lines 133-134: comm.isend([], 0, FLAGS.RUN_FINISHED)
ReportFinished(w) ==
  /\ wpc[w] = "report"
  /\ to_coord' = Send(to_coord, w, Message(RUN_FINISHED, <<>>))
  /\ h_finished' = [h_finished EXCEPT ![w] = @ + 1]
  /\ wpc' = [wpc EXCEPT ![w] = "recv"]
  /\ UNCHANGED <<notmpi, mpiinputs, coordvars, to_worker, alive, h_received,
                 h_started, returncode>>

MpiNext ==
  \/ \E w \in Workers : CollectRegistration(w)
  \/ Collected
  \/ ClassifyActive
  \/ ClassifyRedundant
  \/ CallScheduleRuns
  \/ \E w \in Workers : ScheduleAssign(w)
  \/ \E w \in Workers : ScheduleRunFinished(w)
  \/ ScheduleExit
  \/ \E w \in Workers : Register(w)
  \/ \E w \in Workers : ReceiveExit(w)
  \/ \E w \in Workers : ReceiveScenario(w)
  \/ \E w \in Workers : Popen(w)
  \/ \E w \in Workers : Wait(w)
  \/ \E w \in Workers : ReportFinished(w)

MpiSpec == MpiInit /\ [][MpiNext]_vars

\* ---- what the claims speak of ----
Registered == {processes[i].rank : i \in 1..Len(processes)}
Active == Range(active_procs)
\* rank 0 has gone past the registration loop in some way
PastRegistration ==
  \/ cpc # "collect"
  \/ DOMAIN nodes # {} \/ active_procs # <<>>
  \/ DOMAIN proc_to_cpu_mapping # {}
  \/ h_exit # {}
  \/ \E w \in Workers : to_worker[w] # <<>> \/ wpc[w] \notin {"register", "recv"}

\* C18: rank 0 classifies no worker, sends no EXIT and does not call
\* schedule_runs before it holds nprocs - 1 registrations, one of each
\* worker rank; with nprocs = 1 nothing holds it back and the list of
\* active workers is empty.
C18_BlocksUntilAllRegistered ==
  /\ PastRegistration =>
       /\ Len(processes) = nprocs - 1
       /\ Registered = Workers
       /\ \A w \in Workers : to_coord[w] = <<>> \/ to_coord[w][1].tag # RegistrationTag
  /\ cpc = "collect" => Len(processes) <= nprocs - 1
  /\ nprocs = 1 =>
       /\ AllRegistered(processes)
       /\ active_procs = <<>>

C18_Witness ==
  /\ cpc = "schedule"
  /\ nprocs = 4
  /\ processes[1].rank = 3 /\ processes[2].rank = 1 /\ processes[3].rank = 2

\* the first rank registered from the host h
FirstOf(h) ==
  processes[CHOOSE i \in 1..Len(processes) :
              /\ processes[i].hostname = h
              /\ \A j \in 1..Len(processes) :
                   processes[j].hostname = h => i <= j].rank

\* C19: once rank 0 has classified the registered workers, active_procs
\* holds exactly one rank of every host, the first one registered from it;
\* every other registered worker has been sent EXIT and is neither in
\* active_procs nor in proc_to_cpu_mapping; active and exited workers
\* together are the registered workers.
C19_OneActiveWorkerPerHost ==
  /\ h_exit \cap Active = {}
  /\ h_exit \cap DOMAIN proc_to_cpu_mapping = {}
  /\ DOMAIN proc_to_cpu_mapping = Active
  /\ Len(active_procs) = Cardinality(Active)
  /\ \A w \in h_exit :
       \/ wpc[w] = "exited"
       \/ \E i \in 1..Len(to_worker[w]) : to_worker[w][i].tag = EXIT
  /\ cpc \in {"schedule", "done"} =>
       /\ Active \cup h_exit = Registered
       /\ \A h \in {hostnames[w] : w \in Registered} :
            {w \in Active : hostnames[w] = h} = {FirstOf(h)}

C19_Witness ==
  /\ cpc = "schedule"
  /\ nprocs = 4
  /\ hostnames = <<"node1", "node2", "node1">>
  /\ processes[1].rank = 3
  /\ active_procs = <<3, 2>>
  /\ h_exit = {1}

\* C20: a worker starts one training subprocess per scenario received,
\* sends RUN_FINISHED only when that subprocess has exited and receives
\* nothing while it is alive; it never has two subprocesses alive, and the
\* scenarios received and the RUN_FINISHED sent differ by at most one.
C20_OneScenarioInFlight ==
  /\ [](\A w \in Workers :
          /\ alive[w] <= 1
          /\ h_started[w] <= h_received[w]
          /\ h_received[w] - h_finished[w] \in {0, 1}
          /\ h_received[w] - h_started[w] \in {0, 1}
          /\ wpc[w] \in {"register", "recv", "exited"} =>
               /\ alive[w] = 0
               /\ h_started[w] = h_received[w]
               /\ h_finished[w] = h_received[w])
  /\ [][\A w \in Workers :
          /\ (h_finished'[w] # h_finished[w]) =>
               (alive[w] = 0 /\ h_started[w] = h_finished'[w])
          /\ (Len(to_worker'[w]) < Len(to_worker[w])) => (alive[w] = 0)
          /\ (h_started'[w] # h_started[w]) =>
               (h_started'[w] = h_received[w] /\ alive[w] = 0)]_vars

C20_Witness ==
  \E w \in Workers :
    /\ h_received[w] = 2
    /\ h_finished[w] = 1
    /\ alive[w] = 1

(* ===================================================================== *)
(* Failures of the telemetry sink and of the checkpoint writes.  Neither *)
(* optimizer has a try statement: an exception raised by a call of the   *)
(* loop body leaves optimize.                                            *)
(* ===================================================================== *)
\* tf.summary.histogram raises in the gradient-norm block, after g of the
\* gradients have been summed: none, when a histogram of the weights (the
\* first loop of the block) is the write that fails
HistogramRaises ==
  /\ pc = "gradnorm"
  /\ \E g \in 0..(Len(gradients) - (IF gradients = <<>> THEN 0 ELSE 1)) :
       IF gradients = <<>> THEN UNCHANGED gradvars
       ELSE LET r == GradNormLoop(1, <<0, initial_sum_gradient_norms>>,
                                  SubSeq(gradients, 1, g), epoch)
            IN  /\ sum_gradient_norms' = r[1]
                /\ initial_sum_gradient_norms' = r[2]
                /\ UNCHANGED <<gradients, relative_gradient_norm>>
  /\ pc' = "error"
  /\ outcome' = "TelemetryError"
  /\ UNCHANGED <<others, inputs, operators, epoch, batch, weights, distvars,
                 acc, storage, ckptvars, h_trained, h_since, h_grad, h_losses,
                 h_events>>

\* metrics.update_tensorboard(summary_writer, epoch) raises
TensorboardRaises ==
  /\ pc = "tensorboard"
  /\ pc' = "error"
  /\ outcome' = "TelemetryError"
  /\ UNCHANGED <<others, inputs, operators, epoch, batch, weights, gradvars,
                 distvars, acc, storage, ckptvars, h_trained, h_since, h_grad,
                 h_losses, h_events>>

\* the four writes of a checkpoint, of which the first k succeeded
PartialCheckpoint(d, w, st, k) ==
  [weights |-> IF k >= 1 THEN WriteFile(d.weights, w) ELSE d.weights,
   metrics |-> IF k >= 2 THEN WriteFile(d.metrics, st) ELSE d.metrics,
   hyperp  |-> IF k >= 3 THEN WriteFile(d.hyperp, <<"hyperp">>) ELSE d.hyperp,
   options |-> d.options]

\* an error of a checkpoint write that is caught and passed over: the run
\* goes on where the code after the checkpoint block continues
CheckpointErrorSkipped(continues_at) == continues_at

\* no handler surrounds the writes: the exception leaves optimize
CheckpointErrorPropagates(continues_at) == "error"

\* save_weights, save_metrics or a dump raises in the periodic checkpoint
CheckpointRaises ==
  /\ pc = "checkpoint"
  /\ IF opt \in Single THEN IsCheckpointEpoch(epoch)
                       ELSE DistIsCheckpointEpoch(epoch)
  /\ \E k \in 0..3 :
       disk' = PartialCheckpoint(disk, weights, storage, k)
  /\ pc' = CheckpointErrorPropagates(IF opt \in Single THEN "terminate"
                                                       ELSE "loop_head")
  /\ outcome' = "CheckpointError"
  /\ UNCHANGED <<others, inputs, operators, epoch, batch, weights, gradvars,
                 distvars, acc, storage, h_periodic, h_nPeriodic, h_final,
                 h_trained, h_since, h_grad, h_losses, h_events>>

\* the same in the final checkpoint
FinalCheckpointRaises ==
  /\ pc = "final"
  /\ \E k \in 0..3 :
       disk' = PartialCheckpoint(disk, weights, storage, k)
  /\ pc' = CheckpointErrorPropagates("returned")
  /\ outcome' = "CheckpointError"
  /\ UNCHANGED <<others, inputs, operators, epoch, batch, weights, gradvars,
                 distvars, acc, storage, h_periodic, h_nPeriodic, h_final,
                 h_trained, h_since, h_grad, h_losses, h_events>>

FaultNext ==
  \/ Next
  \/ HistogramRaises \/ TensorboardRaises
  \/ CheckpointRaises \/ FinalCheckpointRaises

FaultSpec == Init /\ [][FaultNext]_vars

\* C21: a run in which a histogram write or metrics.update_tensorboard
\* raised is not aborted: when it has halted, optimize has returned after
\* the final checkpoint.
C21_TelemetryFailureDoesNotAbort ==
  (outcome = "TelemetryError" /\ Halted) => (pc = "returned" /\ h_final)

AtCheckpointEpoch ==
  IF opt \in Single THEN IsCheckpointEpoch(epoch)
                    ELSE DistIsCheckpointEpoch(epoch)

\* C22: a failing write of a periodic or final checkpoint ends the run with
\* the error: nothing is executed after it, the epoch counter does not
\* advance, and neither 'Current Model and Metrics Saved' nor 'Final Model
\* and Metrics Saved' is reported for it; a checkpoint that is due is
\* either written in full and reported, or the run ends with the error.
C22_CheckpointErrorIsFatal ==
  /\ [](outcome = "CheckpointError" => pc = "error")
  /\ [][/\ outcome # "CheckpointError"
        /\ (outcome' = "CheckpointError") =>
             /\ pc \in {"checkpoint", "final"}
             /\ h_nPeriodic' = h_nPeriodic
             /\ h_periodic' = h_periodic
             /\ h_final' = h_final
             /\ epoch' = epoch
        /\ (pc = "checkpoint" /\ AtCheckpointEpoch) =>
             \/ outcome' = "CheckpointError"
             \/ /\ disk' = SaveCheckpoint(disk, weights, storage)
                /\ h_nPeriodic' = h_nPeriodic + 1
        /\ (pc = "final") =>
             \/ outcome' = "CheckpointError"
             \/ /\ disk' = SaveCheckpoint(disk, weights, storage)
                /\ h_final']_vars

\* the second periodic checkpoint fails after the weights were overwritten
C22_Witness ==
  /\ outcome = "CheckpointError"
  /\ pc = "error"
  /\ h_nPeriodic = 1
  /\ epoch > 0
  /\ disk.weights.writes = 2
  /\ disk.metrics.writes = 1

(* ===================================================================== *)
(* optimize of the full linear optimizer from its first line: the        *)
(* operators are built, then the epoch loop runs.                        *)
(* ===================================================================== *)
LinearRuns == [opt : {"linear"}, num_epochs : 0..MaxEpochs,
               nTrain : 0..MaxBatches, nVal : 0..1, nTest : 0..1]

LinearInit ==
  /\ \E r \in LinearRuns : Locals(r)
  /\ pc = "setup"
  /\ matrices \in MatrixChoices
  /\ operators = NoOperators
  /\ OthersIdle

\* lines 80-115: the operators, the Metrics object, the directories
ConstructOperators ==
  /\ pc = "setup" /\ opt = "linear"
  /\ operators' = BuildOperators(matrices)
  /\ pc' = "loop_head"
  /\ UNCHANGED <<others, inputs, epoch, batch, weights, gradvars, distvars,
                 acc, storage, ckptvars, outcome, h_trained, h_since, h_grad,
                 h_losses, h_events>>

LinearNext ==
  \/ ConstructOperators
  \/ EpochBegin \/ LoopExhausted
  \/ TrainBatch \/ TrainDone
  \/ ValBatch \/ ValDone
  \/ TestBatch \/ TestDone
  \/ GradNorm \/ GradNormUnbound
  \/ UpdateTensorboard \/ UpdateStorageArrays \/ Display \/ ResetMetrics
  \/ CheckpointDecision \/ TerminationDecision
  \/ FinalCheckpoint

LinearSpec == LinearInit /\ [][LinearNext]_vars

\* C24: identity_otimes_prior_cov_inv, likelihood_matrix and
\* identity_otimes_likelihood_matrix are assigned once, before the first
\* epoch and before any batch, from the matrices handed to optimize; from
\* then on every step of every epoch finds them, and those matrices, with
\* the value they had when the loop was entered.
C24_OperatorsBuiltOnce ==
  /\ [](IF pc = "setup" THEN operators = NoOperators /\ epoch = -1
                        ELSE operators = BuildOperators(matrices))
  /\ [][/\ (operators' # operators) =>
             (pc = "setup" /\ epoch = -1 /\ h_trained = 0
                /\ operators = NoOperators)
        /\ matrices' = matrices
        /\ (pc # "setup") => (operators' = operators)]_vars

\* the second batch of the third epoch, with a measurement matrix that is
\* not 1 x 1
C24_Witness ==
  /\ opt = "linear"
  /\ pc = "train" /\ epoch = 2 /\ batch = 1
  /\ matrices.measurement_matrix.shape # <<1, 1>>
  /\ matrices.forward_matrix = 2
  /\ operators.likelihood_matrix = <<16>>

(* ===================================================================== *)
(* The calls of nn.iaf_chain_posterior in train_step, val_step and       *)
(* test_step of the distributed optimizer, as the file writes them:      *)
(* parentheses, names and keyword arguments in the order of the text.    *)
(* ===================================================================== *)
Open == [kind |-> "open", name |-> "(", value |-> FALSE]
Close == [kind |-> "close", name |-> ")", value |-> FALSE]
Name(n) == [kind |-> "name", name |-> n, value |-> FALSE]
Keyword(n, v) == [kind |-> "keyword", name |-> n, value |-> v]

\* nn.iaf_chain_posterior((mean, log_var), sample_flag = True,
\*                        infer_flag = False)
SamplingCall(mean, log_var) ==
  <<Open, Open, Name(mean), Name(log_var), Close,
    Keyword("sample_flag", TRUE), Keyword("infer_flag", FALSE), Close>>

\* nn.iaf_chain_posterior((mean, log_var, sample_flag = False,
\*                        infer_flag = True)
DensityCall(mean, log_var) ==
  <<Open, Open, Name(mean), Name(log_var),
    Keyword("sample_flag", FALSE), Keyword("infer_flag", TRUE), Close>>

\* the six calls, in the order of the file
CallSites ==
  <<[step |-> "train",
     tokens |-> SamplingCall("batch_post_mean_train",
                             "batch_log_post_var_train")],
    [step |-> "train",
     tokens |-> DensityCall("batch_post_mean_train",
                            "batch_log_post_var_train")],
    [step |-> "val",
     tokens |-> SamplingCall("batch_post_mean_val", "batch_log_post_var_val")],
    [step |-> "val",
     tokens |-> DensityCall("batch_post_mean_val", "batch_log_post_var_val")],
    [step |-> "test",
     tokens |-> SamplingCall("batch_post_mean_test",
                             "batch_log_post_var_test")],
    [step |-> "test",
     tokens |-> DensityCall("batch_post_mean_test",
                            "batch_log_post_var_test")]>>

\* the number of parentheses open after the first i tokens
RECURSIVE Depth(_, _)
Depth(tokens, i) ==
  IF i = 0 THEN 0
  ELSE Depth(tokens, i - 1)
         + (IF tokens[i].kind = "open" THEN 1
            ELSE IF tokens[i].kind = "close" THEN -1 ELSE 0)

\* the call's own parenthesis is closed by its last token
IsClosed(tokens) == Depth(tokens, Len(tokens)) = 0

\* the keyword arguments of the call itself, and what is written inside the
\* parenthesised first argument
KeywordsPassed(tokens) ==
  {tokens[i] : i \in {j \in 1..Len(tokens) :
                        tokens[j].kind = "keyword" /\ Depth(tokens, j) = 1}}
PosteriorParams(tokens) ==
  [i \in {j \in 1..Len(tokens) :
            tokens[j].kind # "close" /\ Depth(tokens, j) = 2
              /\ tokens[j].kind # "open"} |-> tokens[i]]

FlagsTrue(tokens) ==
  {k.name : k \in {t \in KeywordsPassed(tokens) : t.value}}
ParamNames(tokens) ==
  {PosteriorParams(tokens)[i].name : i \in DOMAIN PosteriorParams(tokens)}

\* C23: in a run of the distributed optimizer each of the six calls passes
\* sample_flag and infer_flag with exactly one of them true; in each step the
\* call with sample_flag true is written before the one with infer_flag
\* true, and the two are given the same pair of mean and log-variance and
\* nothing else.
C23_ExactlyOneFlagPerCall ==
  (opt = "dist") =>
    /\ \A i \in 1..Len(CallSites) :
         LET c == CallSites[i].tokens
         IN  /\ IsClosed(c)
             /\ {k.name : k \in KeywordsPassed(c)} = {"sample_flag", "infer_flag"}
             /\ Cardinality(FlagsTrue(c)) = 1
             /\ \A j \in DOMAIN PosteriorParams(c) :
                  PosteriorParams(c)[j].kind = "name"
    /\ \A st \in {"train", "val", "test"} :
         \E i, j \in 1..Len(CallSites) :
           /\ i < j
           /\ CallSites[i].step = st /\ CallSites[j].step = st
           /\ FlagsTrue(CallSites[i].tokens) = {"sample_flag"}
           /\ FlagsTrue(CallSites[j].tokens) = {"infer_flag"}
           /\ ParamNames(CallSites[i].tokens) = ParamNames(CallSites[j].tokens)
           /\ Cardinality(ParamNames(CallSites[i].tokens)) = 2

(* ===================================================================== *)
(* The single-device loop without a usable ratio, in epoch 0, and with   *)
(* an empty training sequence.                                           *)
(* ===================================================================== *)
\* the sum of epoch 0 was 0: the ratio of epoch 0 is 0/0 and the ratio of
\* every later epoch is a division by 0
RatioUndefined == opt \in Single /\ initial_sum_gradient_norms = 0

\* C25: in a single-device run whose gradient-norm ratio is NaN or infinite
\* the termination test does not fire and nothing is raised: the loop goes
\* on to the next epoch until the range is exhausted, optimize returns as
\* MaxEpochsReached, and the periodic and the final checkpoint overwrite
\* the four files as in any other run.
C25_NoDivergenceGuard ==
  /\ [](RatioUndefined =>
          /\ outcome \in {"running", "MaxEpochsReached"}
          /\ pc # "error"
          /\ (pc \in {"tensorboard", "storage", "display", "reset",
                      "checkpoint", "terminate"}) =>
               (relative_gradient_norm[2] = 0
                  /\ ~LessThanTol(relative_gradient_norm))
          /\ (pc = "returned") =>
               /\ epoch = num_epochs - 1
               /\ h_final
               /\ DiskHolds(h_nPeriodic + 1))
  /\ [][RatioUndefined =>
          /\ (pc = "terminate") => (pc' = "loop_head" /\ outcome' = "running")
          /\ (pc = "checkpoint" /\ IsCheckpointEpoch(epoch)) =>
               (disk' = SaveCheckpoint(disk, weights, storage))
          /\ (pc = "final") =>
               (disk' = SaveCheckpoint(disk, weights, storage))]_vars

\* an infinite ratio in the last epoch of a run of several epochs; the
\* checkpoint of epoch 0 has been overwritten by the final one
C25_Witness ==
  /\ RatioUndefined
  /\ pc = "returned"
  /\ epoch >= 1
  /\ relative_gradient_norm = <<1, 0>>
  /\ disk.weights = [content |-> weights, writes |-> 2]

AfterGradNorm ==
  pc \in {"tensorboard", "storage", "display", "reset", "checkpoint",
          "terminate"}

\* C26 as stated, for every input: the ratio of epoch 0 is the sum of epoch
\* 0 over itself, no single-device run is Converged in epoch 0, a run with
\* num_epochs >= 2 that has ended has executed two epochs, and a run with
\* num_epochs = 1 that has ended has ended as MaxEpochsReached.
C26_NeverStoppedAtEpochZero ==
  opt \in Single =>
    /\ (epoch = 0 /\ AfterGradNorm) =>
         /\ relative_gradient_norm = <<SumSeq(h_last), SumSeq(h_last)>>
         /\ ~LessThanTol(relative_gradient_norm)
    /\ (outcome = "Converged") => (epoch >= 1)
    /\ (Halted /\ num_epochs >= 2) => (epoch >= 1)
    /\ (Halted /\ num_epochs = 1) => (outcome = "MaxEpochsReached")

\* C26 for the runs whose training sequence is not empty: the ratio of
\* epoch 0 is the sum of epoch 0 over itself, no run is Converged in epoch
\* 0, every run ends by returning, one with num_epochs >= 2 after at least
\* two epochs and one with num_epochs = 1 as MaxEpochsReached.
C26_NeverStoppedAtEpochZeroNonEmpty ==
  (opt \in Single /\ nTrain >= 1) =>
    /\ (epoch = 0 /\ AfterGradNorm) =>
         /\ relative_gradient_norm = <<SumSeq(h_last), SumSeq(h_last)>>
         /\ ~LessThanTol(relative_gradient_norm)
    /\ (outcome = "Converged") => (epoch >= 1)
    /\ Halted => (pc = "returned")
    /\ (Halted /\ num_epochs >= 2) => (epoch >= 1)
    /\ (Halted /\ num_epochs = 1) => (outcome = "MaxEpochsReached")

\* the termination test of epoch 0 with a ratio of 1/1 and an epoch to go
C26_Witness ==
  /\ opt \in Single
  /\ num_epochs >= 2
  /\ epoch = 0
  /\ pc = "terminate"
  /\ relative_gradient_norm = <<1, 1>>

\* C27: with an empty training sequence and num_epochs >= 1 no optimizer
\* gets past epoch 0: a single-device run ends with the UnboundLocalError of
\* the gradient-norm block, a distributed run with the ZeroDivisionError of
\* the mean training loss, before the storage arrays are updated and before
\* any of the four files is written.
C27_EmptyTrainingSequenceFails ==
  (nTrain = 0 /\ num_epochs >= 1) =>
    /\ epoch <= 0
    /\ ~AfterGradNorm /\ pc \notin {"final", "returned"}
    /\ (opt = "dist") => (pc \in {"loop_head", "train", "error"})
    /\ (pc = "loop_head") => (epoch = -1)
    /\ (pc = "gradnorm") => (gradients = <<>>)
    /\ (pc = "error") =>
         /\ epoch = 0
         /\ outcome = IF opt \in Single THEN "UnboundLocalError"
                                        ELSE "ZeroDivisionError"
    /\ disk = EmptyDisk
    /\ storage = <<>>
    /\ h_nPeriodic = 0 /\ ~h_final
    /\ weights = 0

\* the failure after two validation batches
C27_Witness ==
  /\ nTrain = 0
  /\ opt = "aware"
  /\ pc = "error"
  /\ outcome = "UnboundLocalError"
  /\ h_since["val"] = 2

(* ===================================================================== *)
(* The MPI scheduler under fair scheduling: every rank is a process of   *)
(* its own that keeps running, and a message sent is received by a       *)
(* receiver that waits for it.                                           *)
(* ===================================================================== *)
FairProcs == 3
FairScenarios == 1
Ranks == 1..(FairProcs - 1)

\* the schedulers of at most FairProcs ranks and FairScenarios scenarios
MpiFairInit ==
  /\ MpiInit
  /\ nprocs <= FairProcs
  /\ num_scenarios <= FairScenarios

MpiFairness ==
  /\ WF_vars(\E w \in Workers : CollectRegistration(w))
  /\ WF_vars(Collected)
  /\ WF_vars(ClassifyActive)
  /\ WF_vars(ClassifyRedundant)
  /\ \A w \in Ranks : WF_vars(w \in Workers /\ Register(w))
  /\ \A w \in Ranks : WF_vars(w \in Workers /\ ReceiveExit(w))

MpiFairSpec == MpiFairInit /\ [][MpiNext]_vars /\ MpiFairness

\* an EXIT is in flight to w
ExitInFlight(w) == \E i \in 1..Len(to_worker[w]) : to_worker[w][i].tag = EXIT
\* a scenario has been handed out
ScenarioAssigned ==
  \/ sched.next > 1
  \/ \E w \in Workers :
       \/ h_received[w] > 0
       \/ \E i \in 1..Len(to_worker[w]) : to_worker[w][i].tag # EXIT

\* C28: the step that receives a registration sends nothing; an EXIT goes to
\* a redundant worker only in the classification loop, which runs when all
\* nprocs - 1 registrations are held; when schedule_runs is called, and so
\* when a scenario is assigned, every redundant worker has been sent EXIT.
C28_ExitOnlyAfterAllRegistered ==
  /\ [](/\ (cpc = "collect") =>
             /\ h_exit = {}
             /\ \A w \in Workers : ~ExitInFlight(w) /\ wpc[w] # "exited"
        /\ (h_exit # {}) => (Len(processes) = nprocs - 1)
        /\ (cpc \in {"schedule", "done"} \/ ScenarioAssigned) =>
             /\ cpc \in {"schedule", "done"}
             /\ h_exit = Registered \ Active
             /\ \A w \in h_exit : ExitInFlight(w) \/ wpc[w] = "exited")
  /\ [][/\ (processes' # processes) =>
             (to_worker' = to_worker /\ h_exit' = h_exit)
        /\ (h_exit' # h_exit) =>
             /\ cpc = "classify" /\ cpc' = "classify"
             /\ Len(processes) = nprocs - 1
             /\ processes' = processes
             /\ ~ScenarioAssigned]_vars

\* a scenario is assigned while the EXIT of a redundant worker is still in
\* flight
C28_Witness ==
  /\ cpc = "schedule"
  /\ sched.next > 1
  /\ \E w \in h_exit : wpc[w] = "recv" /\ ExitInFlight(w)

\* C29: under fair scheduling every worker sent EXIT as redundant ends up
\* out of its loop; it has received no scenario, started no subprocess and
\* sent no RUN_FINISHED; a worker leaves its loop only by receiving a message
\* tagged EXIT, and a message with any other tag takes it to Popen.
C29_RedundantWorkersExit ==
  /\ \A w \in Ranks :
       (w \in h_exit) ~> (w \in Workers /\ wpc[w] = "exited")
  /\ [](\A w \in h_exit :
          /\ h_received[w] = 0
          /\ h_started[w] = 0
          /\ h_finished[w] = 0
          /\ alive[w] = 0
          /\ wpc[w] \in {"recv", "exited"})
  /\ [][\A w \in Workers :
          /\ (wpc'[w] = "exited" /\ wpc[w] # "exited") =>
               /\ wpc[w] = "recv"
               /\ Pending(to_worker, w, EXIT)
               /\ to_worker' = Receive(to_worker, w)
          /\ (Len(to_worker'[w]) < Len(to_worker[w])
                /\ to_worker[w][1].tag # EXIT) =>
               /\ wpc'[w] = "popen"
               /\ h_received'[w] = h_received[w] + 1]_vars

\* a redundant worker has left its loop while an active one is training
C29_Witness ==
  /\ \E w \in h_exit : wpc[w] = "exited"
  /\ \E w \in Workers : alive[w] = 1

\* C30: whatever status the subprocess exited with, the worker then sends
\* the message (RUN_FINISHED, []) and receives again; the message carries
\* nothing of the status, every subprocess that exited is reported once,
\* and a worker starts no more subprocesses than it received scenarios.
C30_ReportsWhateverExitStatus ==
  /\ [](\A w \in Workers :
          /\ \A i \in 1..Len(to_coord[w]) :
               (to_coord[w][i].tag = RUN_FINISHED) =>
                 (to_coord[w][i] = Message(RUN_FINISHED, <<>>))
          /\ h_started[w] <= h_received[w]
          /\ (wpc[w] = "report") => (returncode[w] # NoReturnCode)
          /\ (wpc[w] \in {"recv", "exited"}) => (h_finished[w] = h_started[w]))
  /\ [][\A w \in Workers :
          /\ (wpc[w] = "wait" /\ wpc'[w] # "wait") =>
               (wpc'[w] = "report" /\ returncode'[w] \in {<<0>>, <<1>>})
          /\ (wpc[w] = "report" /\ wpc'[w] # "report") =>
               /\ wpc'[w] = "recv"
               /\ to_coord' = Send(to_coord, w, Message(RUN_FINISHED, <<>>))
               /\ h_finished'[w] = h_finished[w] + 1
               /\ returncode'[w] = returncode[w]]_vars

\* rank 0 has received the RUN_FINISHED of a run whose subprocess failed
C30_Witness ==
  \E w \in Workers :
    /\ returncode[w] = <<1>>
    /\ wpc[w] = "recv"
    /\ h_finished[w] = 1
    /\ to_coord[w] = <<>>
    /\ sched.done = 1

====
